---- MODULE Spec2Model ----
(***************************************************************************)
(* MockMaster: the request matcher (packages/core match.ts, mock.ts), the  *)
(* replay resolver (packages/msw-adapter replay.ts), the recorder          *)
(* (recorder.ts), the JSON persistence (persist.ts), the scenario files    *)
(* (packages/cli fs.ts), the generation of scenarios from an OpenAPI spec  *)
(* (packages/cli generate.ts, packages/openapi extractor.ts, refs.ts) and  *)
(* the sequence counters of the data factories (packages/data factory.ts). *)
(*                                                                         *)
(* A JavaScript string is a sequence of one-character strings.  A call     *)
(* either returns a value or throws: Return(v), Throw and TypeError.       *)
(***************************************************************************)
EXTENDS Integers, Sequences, FiniteSets, TLC

VARIABLES
    pattern,    \* matchPath / parsePathParams: the pattern argument
    path,       \* matchPath / parsePathParams: the path argument
    matched,    \* outcome of matchPath(pattern, path), Pending before the call
    params,     \* outcome of parsePathParams(pattern, path), Pending before the call
    mocks,      \* findMatchingMock: the mocks argument (Mock[])
    scenario,   \* createReplayHandler: the scenario closed over by the handler
    request,    \* the request handed to findMatchingMock / the replay handler
    found,      \* outcome of the lookup, Pending before the call
    answers,    \* replay: the first outcome observed per (method, path)
    twin,       \* outcomes of the same lookups made another way
    now,        \* recorder: the value Date.now() returns
    created,    \* recorder: the recordings createRecording has returned
    input,      \* addRecordingToScenario: its scenario argument after the call
    appended,   \* addRecordingToScenario: the recordings passed, in call order
    original,   \* persist: the value handed to serializeScenario
    json,       \* persist: the stored text
    loaded,     \* persist: outcome of deserializeScenario(json), Pending before
    disk,       \* fs: the scenarios directory and the files written so far
    journal,    \* fs: per scenario name, what the last write/delete left
    last,       \* fs: the operation that settled last and its outcome
    reading,    \* fs: a readScenario suspended between its two awaits
    globalSequences, \* factory: the Map of sequence counters
    issued,     \* factory: the (name, value) pairs returned since the last reset
    openapi,    \* generate: the OpenAPI spec handed to generateScenariosFromSpec
    generated,  \* generate: outcome of generateScenariosFromSpec, Pending before
    resolution  \* refs: the call stack and outcome of resolveAllRefs

vars == <<pattern, path, matched, params, mocks, scenario, request, found,
          answers, twin, now, created, input, appended, original, json, loaded,
          disk, journal, last, reading, globalSequences, issued,
          openapi, generated, resolution>>

matchVars == <<pattern, path, matched, params>>
lookupVars == <<mocks, scenario, request, found>>
historyVars == <<answers, twin>>
recorderVars == <<now, created, input, appended>>
persistVars == <<original, json, loaded>>
storeVars == <<disk, journal, last, reading>>
sequenceVars == <<globalSequences, issued>>
generateVars == <<openapi, generated>>
refsVars == <<resolution>>
cliVars == <<storeVars, sequenceVars, generateVars, refsVars>>

----------------------------------------------------------------------------
(* Outcomes of a call *)

Return(v) == [kind |-> "return", value |-> v]
Throw == [kind |-> "throw", value |-> "SyntaxError"]
Pending == [kind |-> "pending", value |-> "none"]

----------------------------------------------------------------------------
(* Character classes of the regular expressions in match.ts *)

Digits == {"0", "1", "2", "3", "4", "5", "6", "7", "8", "9"}

Letters ==
    {"a", "b", "c", "d", "e", "f", "g", "h", "i", "j", "k", "l", "m",
     "n", "o", "p", "q", "r", "s", "t", "u", "v", "w", "x", "y", "z",
     "A", "B", "C", "D", "E", "F", "G", "H", "I", "J", "K", "L", "M",
     "N", "O", "P", "Q", "R", "S", "T", "U", "V", "W", "X", "Y", "Z"}

\* \w
WordChars == Letters \cup Digits \cup {"_"}

\* the class [.+?^${}()|[\]\\] of the escaping step
EscapedChars == {".", "+", "?", "^", "$", "{", "}", "(", ")", "|", "[", "]", "\\"}

\* characters the regular expression '.' does not match
LineTerminators == {"\n", "\r"}

\* the placeholder '__WILDCARD__'
WILDCARD == <<"_", "_", "W", "I", "L", "D", "C", "A", "R", "D", "_", "_">>

----------------------------------------------------------------------------
(* String helpers: String.prototype.includes, slices, prefix test *)

includes(s, c) == \E i \in 1..Len(s) : s[i] = c

Drop(s, n) == SubSeq(s, n + 1, Len(s))

StartsAt(s, i, w) ==
    /\ i + Len(w) - 1 <= Len(s)
    /\ \A k \in 1..Len(w) : s[i + k - 1] = w[k]

\* length of the longest prefix of s, from position i on, made of characters out of / in cs
RECURSIVE RunIn(_, _, _)
RunIn(s, i, cs) ==
    IF i <= Len(s) /\ s[i] \in cs THEN 1 + RunIn(s, i + 1, cs) ELSE 0

RECURSIVE RunNotIn(_, _, _)
RunNotIn(s, i, cs) ==
    IF i <= Len(s) /\ s[i] \notin cs THEN 1 + RunNotIn(s, i + 1, cs) ELSE 0

----------------------------------------------------------------------------
(* patternToRegex, step by step *)

\* pattern.replace(/\*/g, '__WILDCARD__')
RECURSIVE withWildcardPlaceholder(_)
withWildcardPlaceholder(s) ==
    IF s = <<>> THEN <<>>
    ELSE (IF Head(s) = "*" THEN WILDCARD ELSE <<Head(s)>>)
             \o withWildcardPlaceholder(Tail(s))

\* .replace(/[.+?^${}()|[\]\\]/g, '\\$&')
RECURSIVE escaped(_)
escaped(s) ==
    IF s = <<>> THEN <<>>
    ELSE (IF Head(s) \in EscapedChars THEN <<"\\", Head(s)>> ELSE <<Head(s)>>)
             \o escaped(Tail(s))

GroupOpen == <<"(", "?", "<">>
SegmentClass == <<"[", "^", "/", "]", "+">>
GroupBody == <<">">> \o SegmentClass \o <<")">>
Greedy == <<".", "*">>

\* .replace(/:(\w+)/g, '(?<$1>[^/]+)'): leftmost, longest run of \w after ':'
RECURSIVE withParams(_)
withParams(s) ==
    IF s = <<>> THEN <<>>
    ELSE LET n == RunIn(s, 2, WordChars) IN
         IF Head(s) = ":" /\ n > 0
         THEN GroupOpen \o SubSeq(s, 2, n + 1) \o GroupBody \o withParams(Drop(s, n + 1))
         ELSE <<Head(s)>> \o withParams(Tail(s))

\* a callback that forgets the end-of-pattern case: every wildcard is one segment
wildcardAlwaysSegment(string, i) == SegmentClass

\* the callback of .replace(/__WILDCARD__/g, (match, offset, string) => ...);
\* offset is 0-based, i is the 1-based position of the match in string
wildcardReplacement(string, i) ==
    LET offset == i - 1 IN
    IF \/ offset + Len(WILDCARD) >= Len(string)
       \/ string[offset + Len(WILDCARD) + 1] = "$"
    THEN Greedy
    ELSE SegmentClass

RECURSIVE withWildcardsFrom(_, _)
withWildcardsFrom(string, i) ==
    IF i > Len(string) THEN <<>>
    ELSE IF StartsAt(string, i, WILDCARD)
         THEN wildcardReplacement(string, i) \o withWildcardsFrom(string, i + Len(WILDCARD))
         ELSE <<string[i]>> \o withWildcardsFrom(string, i + 1)

withWildcards(s) == withWildcardsFrom(s, 1)

\* the source text handed to new RegExp
regexSource(p) ==
    <<"^">> \o withWildcards(withParams(escaped(withWildcardPlaceholder(p)))) \o <<"$">>

----------------------------------------------------------------------------
(* new RegExp(source): the constructs the steps above can emit.  Every     *)
(* syntax character of the pattern was escaped, so the source is a         *)
(* concatenation of ^, $, \c, (?<name>[^/]+), [^/]+, .* and plain          *)
(* characters.  The constructor throws a SyntaxError on a group name that  *)
(* is not an identifier and on a name used twice.                          *)

Tok(t, c) == [t |-> t, c |-> c]

\* position of the first '>' at or after i, 0 when there is none
RECURSIVE IndexOfClose(_, _)
IndexOfClose(s, i) ==
    IF i > Len(s) THEN 0
    ELSE IF s[i] = ">" THEN i ELSE IndexOfClose(s, i + 1)

\* RegExpIdentifierName: IdentifierStart then IdentifierPart
IsGroupName(n) ==
    /\ n # <<>>
    /\ n[1] \in Letters \cup {"_", "$"}
    /\ \A k \in 2..Len(n) : n[k] \in WordChars \cup {"$"}

SyntaxError == <<Tok("error", <<>>)>>

RECURSIVE regexTokens(_, _)
regexTokens(s, i) ==
    IF i > Len(s) THEN <<>>
    ELSE IF StartsAt(s, i, GroupOpen)
    THEN LET close == IndexOfClose(s, i + 3)
             name == SubSeq(s, i + 3, close - 1)
         IN IF close = 0 \/ ~IsGroupName(name) \/ ~StartsAt(s, close, GroupBody)
            THEN SyntaxError
            ELSE <<Tok("group", name)>> \o regexTokens(s, close + Len(GroupBody))
    ELSE IF StartsAt(s, i, SegmentClass)
    THEN <<Tok("segment", <<>>)>> \o regexTokens(s, i + Len(SegmentClass))
    ELSE IF StartsAt(s, i, Greedy)
    THEN <<Tok("greedy", <<>>)>> \o regexTokens(s, i + Len(Greedy))
    ELSE IF s[i] = "\\" /\ i < Len(s)
    THEN <<Tok("char", s[i + 1])>> \o regexTokens(s, i + 2)
    ELSE IF s[i] = "^" THEN <<Tok("start", <<>>)>> \o regexTokens(s, i + 1)
    ELSE IF s[i] = "$" THEN <<Tok("end", <<>>)>> \o regexTokens(s, i + 1)
    ELSE <<Tok("char", s[i])>> \o regexTokens(s, i + 1)

\* new RegExp(source): Return(tokens) or Throw
RegExp(source) ==
    LET toks == regexTokens(source, 1)
        groups == {k \in 1..Len(toks) : toks[k].t = "group"}
    IN IF \/ \E k \in 1..Len(toks) : toks[k].t = "error"
          \/ \E k1, k2 \in groups : k1 # k2 /\ toks[k1].c = toks[k2].c
       THEN Throw
       ELSE Return(toks)

\* const patternToRegex = (pattern) => new RegExp(`^${withWildcards}$`)
patternToRegex(p) == RegExp(regexSource(p))

----------------------------------------------------------------------------
(* Matching a compiled expression: backtracking, greedy quantifiers,       *)
(* anchored at position 1 by the leading ^.                                *)

NoMatch == [ok |-> FALSE, caps |-> <<>>]

RECURSIVE MatchAt(_, _, _, _)
RECURSIVE TryLen(_, _, _, _, _, _)

MatchAt(toks, k, s, j) ==
    IF k > Len(toks) THEN [ok |-> TRUE, caps |-> <<>>]
    ELSE LET t == toks[k] IN
         CASE t.t = "start" -> IF j = 1 THEN MatchAt(toks, k + 1, s, j) ELSE NoMatch
           [] t.t = "end" -> IF j = Len(s) + 1 THEN MatchAt(toks, k + 1, s, j) ELSE NoMatch
           [] t.t = "char" ->
                IF j <= Len(s) /\ s[j] = t.c THEN MatchAt(toks, k + 1, s, j + 1) ELSE NoMatch
           [] t.t \in {"group", "segment"} ->
                TryLen(toks, k, s, j, RunNotIn(s, j, {"/"}), 1)
           [] t.t = "greedy" ->
                TryLen(toks, k, s, j, RunNotIn(s, j, LineTerminators), 0)
           [] OTHER -> NoMatch

\* token k takes n characters, then fewer, down to min
TryLen(toks, k, s, j, n, min) ==
    IF n < min THEN NoMatch
    ELSE LET rest == MatchAt(toks, k + 1, s, j + n) IN
         IF rest.ok
         THEN IF toks[k].t = "group"
              THEN [ok |-> TRUE,
                    caps |-> <<[name |-> toks[k].c, value |-> SubSeq(s, j, j + n - 1)]>>
                                 \o rest.caps]
              ELSE rest
         ELSE TryLen(toks, k, s, j, n - 1, min)

\* regex.test(path)
RegexTest(toks, s) == MatchAt(toks, 1, s, 1).ok

\* path.match(regex): null when the expression does not match
StringMatch(toks, s) == MatchAt(toks, 1, s, 1)

\* match.groups: undefined when the expression has no named group, else one
\* key per group name
EmptyParams == [n \in {} |-> <<>>]

HasGroups(m) == m.caps # <<>>

Groups(m) ==
    [n \in {m.caps[i].name : i \in 1..Len(m.caps)} |->
        m.caps[CHOOSE i \in 1..Len(m.caps) : m.caps[i].name = n].value]

----------------------------------------------------------------------------
(* match.ts: matchPath and parsePathParams *)

\* a matcher whose literal comparison is path.startsWith(pattern)
matchPathStartsWith(p, q) ==
    IF p = q THEN Return(TRUE)
    ELSE IF includes(p, ":") \/ includes(p, "*")
    THEN LET regex == patternToRegex(p) IN
         IF regex.kind = "throw" THEN Throw
         ELSE Return(RegexTest(regex.value, q))
    ELSE Return(StartsAt(q, 1, p))

matchPath(p, q) ==
    IF p = q THEN Return(TRUE)
    ELSE IF includes(p, ":") \/ includes(p, "*")
    THEN LET regex == patternToRegex(p) IN
         IF regex.kind = "throw" THEN Throw
         ELSE Return(RegexTest(regex.value, q))
    ELSE Return(FALSE)

\* variant: the parameter bound to the path without matching it
parsePathParamsUnmatched(p, q) ==
    IF ~includes(p, ":") THEN Return(EmptyParams)
    ELSE Return([n \in {<<"i">>} |-> q])

parsePathParams(p, q) ==
    IF ~includes(p, ":") THEN Return(EmptyParams)
    ELSE LET regex == patternToRegex(p) IN
         IF regex.kind = "throw" THEN Throw
         ELSE LET match == StringMatch(regex.value, q) IN
              IF ~match.ok \/ ~HasGroups(match) THEN Return(EmptyParams)
              ELSE Return(Groups(match))

----------------------------------------------------------------------------
(* mock.ts: matchMethod and findMatchingMock *)

LowerCase == <<"a", "b", "c", "d", "e", "f", "g", "h", "i", "j", "k", "l", "m",
               "n", "o", "p", "q", "r", "s", "t", "u", "v", "w", "x", "y", "z">>

UpperCase == <<"A", "B", "C", "D", "E", "F", "G", "H", "I", "J", "K", "L", "M",
               "N", "O", "P", "Q", "R", "S", "T", "U", "V", "W", "X", "Y", "Z">>

\* String.prototype.toUpperCase
toUpperCase(s) ==
    [k \in 1..Len(s) |->
        IF \E n \in 1..Len(LowerCase) : LowerCase[n] = s[k]
        THEN UpperCase[CHOOSE n \in 1..Len(LowerCase) : LowerCase[n] = s[k]]
        ELSE s[k]]

\* variant: methods compared as the replay resolver compares them
matchMethodExact(expected, actual) == expected = actual

matchMethod(expected, actual) == toUpperCase(expected) = toUpperCase(actual)

\* the value 'undefined'
undefined == [type |-> "undefined"]

\* the callback handed to mocks.find: the method first, the path only when it matches
mockMatches(mock, req) ==
    IF ~matchMethod(mock.method, req.method) THEN Return(FALSE)
    ELSE matchPath(mock.pattern, req.path)

\* Array.prototype.find from index i on; a throwing callback ends the scan
RECURSIVE findMock(_, _, _)
findMock(ms, i, req) ==
    IF i > Len(ms) THEN Return(undefined)
    ELSE LET r == mockMatches(ms[i], req) IN
         IF r.kind = "throw" THEN Throw
         ELSE IF r.value THEN Return(ms[i])
         ELSE findMock(ms, i + 1, req)

findMatchingMock(ms, req) == findMock(ms, 1, req)

----------------------------------------------------------------------------
(* replay.ts: matchRequest and the handler of createReplayHandler *)

\* variant: a recorded query must be the query of the incoming request
matchRequestWithQuery(recorded, incoming) ==
    LET methodMatches == recorded.method = incoming.method
        pathMatches == matchPath(recorded.path, incoming.path)
        queryMatches == /\ ("query" \in DOMAIN recorded) = ("query" \in DOMAIN incoming)
                        /\ "query" \in DOMAIN recorded =>
                             recorded.query = incoming.query
    IN IF pathMatches.kind = "throw" THEN Throw
       ELSE Return(methodMatches /\ pathMatches.value /\ queryMatches)

\* variant: methods compared as the mock registry compares them
matchRequestAnyCase(recorded, incoming) ==
    LET methodMatches == matchMethod(recorded.method, incoming.method)
        pathMatches == matchPath(recorded.path, incoming.path)
    IN IF pathMatches.kind = "throw" THEN Throw
       ELSE Return(methodMatches /\ pathMatches.value)

\* both operands are evaluated before the conjunction
matchRequest(recorded, incoming) ==
    LET methodMatches == recorded.method = incoming.method
        pathMatches == matchPath(recorded.path, incoming.path)
    IN IF pathMatches.kind = "throw" THEN Throw
       ELSE Return(methodMatches /\ pathMatches.value)

RECURSIVE findRecording(_, _, _)
findRecording(recs, i, incoming) ==
    IF i > Len(recs) THEN Return(undefined)
    ELSE LET r == matchRequest(recs[i].request, incoming) IN
         IF r.kind = "throw" THEN Throw
         ELSE IF r.value THEN Return(recs[i])
         ELSE findRecording(recs, i + 1, incoming)

\* an optional property is a field the record has or lacks; a property set
\* to undefined is a field the record lacks
Has(r, f) == f \in DOMAIN r

\* variant: the stored response handed out as it is
replayResponseVerbatim(recorded) == recorded

\* RecordedResponse -> ReplayResponse: status and body are copied, statusText
\* and headers when they are not undefined; a property the stored response
\* lacks reads as undefined
replayResponse(recorded) ==
    [f \in {g \in {"status", "body", "statusText", "headers"} : Has(recorded, g)}
        |-> recorded[f]]

\* variant: a handler that remembers the request it answered last and does
\* not answer it twice in a row
replayHandlerNoRepeat(scn, req) ==
    LET recording == findRecording(scn.recordings, 1, req) IN
    IF recording.kind = "throw" THEN Throw
    ELSE IF recording.value = undefined \/ req = request THEN Return(undefined)
    ELSE Return(replayResponse(recording.value.response))

\* the function createReplayHandler(scenario) returns, applied to a request
replayHandler(scn, req) ==
    LET recording == findRecording(scn.recordings, 1, req) IN
    IF recording.kind = "throw" THEN Throw
    ELSE IF recording.value = undefined THEN Return(undefined)
    ELSE Return(replayResponse(recording.value.response))

----------------------------------------------------------------------------
(* Inputs: a path or pattern is a '/'-joined sequence of segments *)

RECURSIVE JoinSegments(_)
JoinSegments(segs) ==
    IF segs = <<>> THEN <<>>
    ELSE <<"/">> \o Head(segs) \o JoinSegments(Tail(segs))

\* every string of at most n segments drawn from pool (the empty string for none)
StringsOver(pool, n) ==
    {JoinSegments(segs) : segs \in UNION {[1..k -> pool] : k \in 0..n}}

MaxPatternSegs == 2
MaxPathSegs == 2

\* literal, parameter, parameter named by a digit, parameter followed by a
\* literal character, wildcard, the placeholder text, a regex metacharacter,
\* the empty segment
PatternSegments ==
    {<<"a">>, <<":", "i">>, <<":", "1">>, <<":", "i", "-">>, <<"*">>, WILDCARD, <<".">>,
     <<>>}

PathSegments == PatternSegments \cup {<<"x">>}

\* segments with neither ':' nor '*'
ExactSegments == {<<"a">>, <<"A">>, <<".">>, WILDCARD, <<>>}

\* literal and wildcard segments, and the path segments tried against them
MaxWildcardPatternSegs == 3
MaxWildcardPathSegs == 4
WildcardPatternSegments == {<<"a">>, <<"*">>}
WildcardPathSegments == {<<"a">>, <<"x">>, <<>>}

NoScenario == [name |-> <<>>, recordings |-> <<>>, createdAt |-> 0, updatedAt |-> 0]
NoRequest == [method |-> <<>>, path |-> <<>>]

LookupIdle ==
    /\ mocks = <<>>
    /\ scenario = NoScenario
    /\ request = NoRequest
    /\ found = Pending

MatchIdle ==
    /\ pattern = <<>>
    /\ path = <<>>
    /\ matched = Pending
    /\ params = Pending

HistoryIdle ==
    /\ answers = <<>>
    /\ twin = Pending

RecorderIdle ==
    /\ now = 0
    /\ created = <<>>
    /\ input = NoScenario
    /\ appended = <<>>

PersistIdle ==
    /\ original = undefined
    /\ json = <<>>
    /\ loaded = Pending

StoreIdle ==
    /\ disk = [dirs |-> {<<>>}, files |-> <<>>]
    /\ journal = <<>>
    /\ last = Pending
    /\ reading = Pending

SequenceIdle ==
    /\ globalSequences = <<>>
    /\ issued = <<>>

GenerateIdle ==
    /\ openapi = undefined
    /\ generated = Pending

RefsIdle == resolution = Pending

CliIdle == StoreIdle /\ SequenceIdle /\ GenerateIdle /\ RefsIdle

InitMatch ==
    /\ pattern \in StringsOver(PatternSegments, MaxPatternSegs)
    /\ path \in StringsOver(PathSegments, MaxPathSegs)
    /\ matched = Pending
    /\ params = Pending
    /\ LookupIdle
    /\ HistoryIdle /\ RecorderIdle /\ PersistIdle
    /\ CliIdle

\* a call of matchPath(pattern, path)
CallMatchPath ==
    /\ matched = Pending
    /\ matched' = matchPath(pattern, path)
    /\ UNCHANGED <<pattern, path, params>>
    /\ UNCHANGED <<lookupVars, historyVars, recorderVars, persistVars, cliVars>>

\* a call of parsePathParams(pattern, path)
CallParsePathParams ==
    /\ params = Pending
    /\ params' = parsePathParams(pattern, path)
    /\ UNCHANGED <<pattern, path, matched>>
    /\ UNCHANGED <<lookupVars, historyVars, recorderVars, persistVars, cliVars>>

NextMatch == CallMatchPath \/ CallParsePathParams

SpecMatch == InitMatch /\ [][NextMatch]_vars

\* patterns with parameters: two names, a name that is no identifier, a
\* name followed by a literal character, a wildcard
ParamPatternSegments ==
    {<<"a">>, <<":", "i">>, <<":", "j">>, <<":", "1">>, <<":", "i", "-">>, <<"*">>}

ParamPathSegments == {<<"a">>, <<"x">>, <<"a", "-">>, <<>>}

InitParams ==
    /\ pattern \in StringsOver(ParamPatternSegments, MaxPatternSegs)
    /\ path \in StringsOver(ParamPathSegments, MaxPathSegs)
    /\ matched = Pending
    /\ params = Pending
    /\ LookupIdle
    /\ HistoryIdle /\ RecorderIdle /\ PersistIdle
    /\ CliIdle

SpecParams == InitParams /\ [][NextMatch]_vars

\* patterns with neither ':' nor '*'
InitExact ==
    /\ pattern \in StringsOver(ExactSegments, MaxPatternSegs)
    /\ path \in StringsOver(ExactSegments, MaxPathSegs)
    /\ matched = Pending
    /\ params = Pending
    /\ LookupIdle
    /\ HistoryIdle /\ RecorderIdle /\ PersistIdle
    /\ CliIdle

SpecExact == InitExact /\ [][NextMatch]_vars

\* patterns of literal and '*' segments
InitWildcard ==
    /\ pattern \in StringsOver(WildcardPatternSegments, MaxWildcardPatternSegs)
    /\ path \in StringsOver(WildcardPathSegments, MaxWildcardPathSegs)
    /\ matched = Pending
    /\ params = Pending
    /\ LookupIdle
    /\ HistoryIdle /\ RecorderIdle /\ PersistIdle
    /\ CliIdle

SpecWildcard == InitWildcard /\ [][NextMatch]_vars

----------------------------------------------------------------------------
(* Lookups: findMatchingMock over a mock list, the replay handler over a   *)
(* scenario.  The list is fixed at construction, requests arrive one by    *)
(* one.                                                                    *)

MaxMocks == 2
MaxRecordings == 2

GET == <<"G", "E", "T">>
POST == <<"P", "O", "S", "T">>
get == <<"g", "e", "t">>

Methods == {GET, POST, get}

\* '/a', '/:i', '/*', '/:1'
LookupPatterns ==
    {<<"/", "a">>, <<"/", ":", "i">>, <<"/", "*">>, <<"/", ":", "1">>}

\* '/a', '/x', '/a/x'
LookupPaths == {<<"/", "a">>, <<"/", "x">>, <<"/", "a", "/", "x">>}

Requests == [method : Methods, path : LookupPaths]

\* the k-th mock of a list: its id and its response name the position
Mock(k, m, p) ==
    [id |-> k, pattern |-> p, method |-> m, response |-> [status |-> 200, body |-> k]]

\* the k-th recording of a scenario; the optional response fields vary with k
Recording(k, m, p) ==
    [id |-> k,
     request |-> [method |-> m, url |-> p, path |-> p, timestamp |-> k],
     response |-> IF k = 1
                  THEN [status |-> 200, body |-> k, timestamp |-> k]
                  ELSE [status |-> 201, body |-> k, timestamp |-> k,
                        statusText |-> "Created", headers |-> "json"]]

Entries(n) == UNION {[1..k -> Methods \X LookupPatterns] : k \in 0..n}

InitMock ==
    /\ mocks \in {[k \in DOMAIN e |-> Mock(k, e[k][1], e[k][2])] : e \in Entries(MaxMocks)}
    /\ scenario = NoScenario
    /\ request = NoRequest
    /\ found = Pending
    /\ MatchIdle
    /\ HistoryIdle /\ RecorderIdle /\ PersistIdle
    /\ CliIdle

\* a call of findMatchingMock(mocks, req)
CallFindMatchingMock(req) ==
    /\ request' = req
    /\ found' = findMatchingMock(mocks, req)
    /\ UNCHANGED <<mocks, scenario>>
    /\ UNCHANGED <<matchVars, historyVars, recorderVars, persistVars, cliVars>>

NextMock == \E req \in Requests : CallFindMatchingMock(req)

SpecMock == InitMock /\ [][NextMock]_vars

InitReplay ==
    /\ scenario \in
         {[name |-> <<"s">>,
           recordings |-> [k \in DOMAIN e |-> Recording(k, e[k][1], e[k][2])],
           createdAt |-> 1, updatedAt |-> 1] : e \in Entries(MaxRecordings)}
    /\ mocks = <<>>
    /\ request = NoRequest
    /\ found = Pending
    /\ MatchIdle
    /\ HistoryIdle /\ RecorderIdle /\ PersistIdle
    /\ CliIdle

\* a call of the handler returned by createReplayHandler(scenario)
CallReplayHandler(req) ==
    /\ request' = req
    /\ found' = replayHandler(scenario, req)
    /\ UNCHANGED <<mocks, scenario>>
    /\ UNCHANGED <<matchVars, historyVars, recorderVars, persistVars, cliVars>>

NextReplay == \E req \in Requests : CallReplayHandler(req)

SpecReplay == InitReplay /\ [][NextReplay]_vars

----------------------------------------------------------------------------
(* a scenario whose recordings may carry a responder function as response *)

\* a function (request) => MockResponse stored where a response is expected:
\* a function object has none of the properties status, body, statusText,
\* headers
Responder == [type |-> "function", name |-> "responder"]

\* what calling the responder with a request returns
Invoke(fn, req) == [status |-> 200, body |-> req.path]

ResponderRecording(k, m, p, dynamic) ==
    IF dynamic THEN [Recording(k, m, p) EXCEPT !.response = Responder]
    ELSE Recording(k, m, p)

ResponderEntries(n) ==
    UNION {[1..k -> Methods \X LookupPatterns \X BOOLEAN] : k \in 0..n}

InitResponder ==
    /\ scenario \in
         {[name |-> <<"s">>,
           recordings |-> [k \in DOMAIN e |->
                             ResponderRecording(k, e[k][1], e[k][2], e[k][3])],
           createdAt |-> 1, updatedAt |-> 1] : e \in ResponderEntries(MaxRecordings)}
    /\ mocks = <<>>
    /\ request = NoRequest
    /\ found = Pending
    /\ MatchIdle
    /\ HistoryIdle /\ RecorderIdle /\ PersistIdle
    /\ CliIdle

SpecResponder == InitResponder /\ [][NextReplay]_vars

----------------------------------------------------------------------------
(* one handler called again and again, the first outcome per request kept *)

MaxLoggedRecordings == 2

LoggedMethods == {GET, get}
LoggedPatterns == {<<"/", "a">>, <<"/", ":", "i">>}
LoggedRequests == [method : LoggedMethods, path : {<<"/", "a">>, <<"/", "x">>}]

LoggedEntries(n) ==
    UNION {[1..k -> LoggedMethods \X LoggedPatterns] : k \in 0..n}

InitLogged ==
    /\ scenario \in
         {[name |-> <<"s">>,
           recordings |-> [k \in DOMAIN e |-> Recording(k, e[k][1], e[k][2])],
           createdAt |-> 1, updatedAt |-> 1] : e \in LoggedEntries(MaxLoggedRecordings)}
    /\ mocks = <<>>
    /\ request = NoRequest
    /\ found = Pending
    /\ MatchIdle
    /\ HistoryIdle /\ RecorderIdle /\ PersistIdle
    /\ CliIdle

\* a call of the handler; answers keeps the outcome of the first call made
\* with this request, and whether the request was made again since
CallLoggedHandler(req) ==
    LET outcome == replayHandler(scenario, req) IN
    /\ request' = req
    /\ found' = outcome
    /\ answers' = IF req \in DOMAIN answers
                  THEN [answers EXCEPT ![req].again = TRUE]
                  ELSE answers @@ (req :> [first |-> outcome, again |-> FALSE])
    /\ UNCHANGED <<mocks, scenario, twin>>
    /\ UNCHANGED <<matchVars, recorderVars, persistVars, cliVars>>

NextLogged == \E req \in LoggedRequests : CallLoggedHandler(req)

SpecLogged == InitLogged /\ [][NextLogged]_vars

----------------------------------------------------------------------------
(* recorder.ts: findMatchingRecording *)

RECURSIVE findRecordingExact(_, _, _)
findRecordingExact(recs, i, req) ==
    IF i > Len(recs) THEN undefined
    ELSE LET methodMatches == recs[i].request.method = req.method
             pathMatches == recs[i].request.path = req.path
         IN IF methodMatches /\ pathMatches THEN recs[i]
            ELSE findRecordingExact(recs, i + 1, req)

findMatchingRecording(scn, req) == findRecordingExact(scn.recordings, 1, req)

----------------------------------------------------------------------------
(* the same lookups made twice, the fields other than method and path changed *)

MaxUnreadRecordings == 2

\* url, timestamp and the optional query, headers and body of a request
UnreadFields ==
    {[url |-> "http://h/a", timestamp |-> 1],
     [url |-> "http://g/a?page=1", timestamp |-> 2, query |-> "page=1",
      headers |-> "accept: json", body |-> "b"]}

WithFields(req, x) ==
    [f \in {"method", "path"} \cup DOMAIN x |->
        IF f \in {"method", "path"} THEN req[f] ELSE x[f]]

\* the scenario with the unread fields of its recorded requests set to x
Refield(scn, x) ==
    [scn EXCEPT !.recordings =
        [k \in DOMAIN scn.recordings |->
            [scn.recordings[k] EXCEPT !.request = WithFields(@, x)]]]

\* what matchRequest, the replay handler and findMatchingRecording decide
Decisions(scn, req) ==
    LET rec == findMatchingRecording(scn, req) IN
    [matches |-> [k \in DOMAIN scn.recordings |->
                     matchRequest(scn.recordings[k].request, req)],
     handler |-> replayHandler(scn, req),
     recording |-> IF rec = undefined THEN 0 ELSE rec.id]

InitUnread ==
    /\ scenario \in
         {[name |-> <<"s">>,
           recordings |-> [k \in DOMAIN e |-> Recording(k, e[k][1], e[k][2])],
           createdAt |-> 1, updatedAt |-> 1] : e \in LoggedEntries(MaxUnreadRecordings)}
    /\ mocks = <<>>
    /\ request = NoRequest
    /\ found = Pending
    /\ MatchIdle
    /\ HistoryIdle /\ RecorderIdle /\ PersistIdle
    /\ CliIdle

\* the lookups for a request against the scenario, and for a request with
\* the same method and path against the scenario recorded with other fields
CallTwice(req, x, y, z) ==
    /\ request' = WithFields(req, x)
    /\ found' = replayHandler(scenario, request')
    /\ twin' = [request |-> WithFields(req, y),
                scenario |-> Refield(scenario, z),
                first |-> Decisions(scenario, request'),
                second |-> Decisions(Refield(scenario, z), WithFields(req, y))]
    /\ UNCHANGED <<mocks, scenario, answers>>
    /\ UNCHANGED <<matchVars, recorderVars, persistVars, cliVars>>

NextUnread ==
    \E req \in LoggedRequests, x \in UnreadFields, y \in UnreadFields,
       z \in UnreadFields :
        CallTwice(req, x, y, z)

SpecUnread == InitUnread /\ [][NextUnread]_vars

----------------------------------------------------------------------------
(* recorder.ts: generateId, createRecording, createScenario,               *)
(* addRecordingToScenario                                                   *)

Digits36 == <<"0", "1", "2", "3", "4", "5", "6", "7", "8", "9",
              "a", "b", "c", "d", "e", "f", "g", "h", "i", "j", "k", "l", "m",
              "n", "o", "p", "q", "r", "s", "t", "u", "v", "w", "x", "y", "z">>

\* Number.prototype.toString(36) of a non-negative integer
RECURSIVE toString36(_)
toString36(n) ==
    IF n < 36 THEN <<Digits36[n + 1]>>
    ELSE toString36(n \div 36) \o <<Digits36[(n % 36) + 1]>>

\* String.prototype.substring(start, end), 0 <= start <= end
substring(s, start, end) ==
    SubSeq(s, start + 1, IF end < Len(s) THEN end ELSE Len(s))

\* Math.random().toString(36): the texts of some numbers of [0, 1)
RandomTexts ==
    {<<"0">>,
     <<"0", ".", "i">>,
     <<"0", ".", "1", "a">>,
     <<"0", ".", "4", "f", "z", "y", "o", "8", "2", "m">>,
     <<"0", ".", "4", "f", "z", "y", "o", "8", "2", "n">>}

\* generateId, t the value of Date.now() and r the text of Math.random()
generateId(t, r) ==
    LET timestamp == toString36(t)
        random == substring(r, 2, 9)
    IN timestamp \o <<"-">> \o random

createRecording(req, res, t, r) ==
    [id |-> generateId(t, r), request |-> req, response |-> res]

\* the optional arguments of a call: those given and not undefined
NoOptions == [n \in {} |-> <<>>]

\* createScenario(name, description?), t the value of Date.now()
createScenario(name, options, t) ==
    LET scn == [name |-> name, recordings |-> <<>>,
                createdAt |-> t, updatedAt |-> t]
    IN IF Has(options, "description")
       THEN scn @@ [description |-> options.description]
       ELSE scn

\* variant: the recording pushed onto the array of the argument
addRecordingInPlace(scn, recording, t) ==
    LET pushed == [scn EXCEPT !.recordings = Append(@, recording)] IN
    [argument |-> pushed,
     result |-> [pushed EXCEPT !.updatedAt = t]]

\* addRecordingToScenario, t the value of Date.now(): the argument object as
\* the call leaves it, and the object returned, a copy of the argument's
\* properties with a new recordings array and updatedAt
addRecordingToScenario(scn, recording, t) ==
    [argument |-> scn,
     result |-> [f \in DOMAIN scn \cup {"recordings", "updatedAt"} |->
                   IF f = "recordings" THEN scn.recordings \o <<recording>>
                   ELSE IF f = "updatedAt" THEN t
                   ELSE scn[f]]]

MaxClock == 37
MaxCreated == 2
MaxAppended == 2

\* the values Date.now() takes
Clock == 35..MaxClock

SampleRequest == [method |-> GET, url |-> <<"/", "a">>, path |-> <<"/", "a">>,
                  timestamp |-> 35]
SampleResponse == [status |-> 200, body |-> "ok", timestamp |-> 35]

\* a scenario made by createScenario now, or one read back from storage,
\* which carries the timestamps stored with it
InitRecorder ==
    /\ now = 35
    /\ scenario \in
         {createScenario(<<"s">>, o, now) :
            o \in {NoOptions, [description |-> <<"d">>]}}
         \cup {[name |-> <<"s">>, recordings |-> <<>>,
                createdAt |-> 35, updatedAt |-> u] : u \in Clock}
    /\ input = scenario
    /\ created = <<>>
    /\ appended = <<>>
    /\ mocks = <<>>
    /\ request = NoRequest
    /\ found = Pending
    /\ MatchIdle
    /\ HistoryIdle /\ PersistIdle
    /\ CliIdle

\* time passes
Tick ==
    /\ now < MaxClock
    /\ now' = now + 1
    /\ UNCHANGED <<created, input, appended>>
    /\ UNCHANGED <<matchVars, lookupVars, historyVars, persistVars, cliVars>>

CallCreateRecording(r) ==
    /\ Len(created) < MaxCreated
    /\ created' = Append(created, createRecording(SampleRequest, SampleResponse, now, r))
    /\ UNCHANGED <<now, input, appended>>
    /\ UNCHANGED <<matchVars, lookupVars, historyVars, persistVars, cliVars>>

\* scenario = addRecordingToScenario(scenario, recording)
CallAddRecording(recording) ==
    LET call == addRecordingToScenario(scenario, recording, now) IN
    /\ Len(appended) < MaxAppended
    /\ input' = call.argument
    /\ scenario' = call.result
    /\ appended' = Append(appended, recording)
    /\ UNCHANGED <<now, created>>
    /\ UNCHANGED <<mocks, request, found>>
    /\ UNCHANGED <<matchVars, historyVars, persistVars, cliVars>>

NextRecorder ==
    \/ Tick
    \/ \E r \in RandomTexts : CallCreateRecording(r)
    \/ \E k \in DOMAIN created : CallAddRecording(created[k])

SpecRecorder == InitRecorder /\ [][NextRecorder]_vars

----------------------------------------------------------------------------
(* JavaScript values as JSON.stringify and JSON.parse see them *)

\* every value has the four fields, so that any two values can be compared:
\* the type, the characters of a string, the number (1 and 0 for true and
\* false), and the elements of an array or the properties of an object
JValue(t, s, n, items) == [t |-> t, s |-> s, n |-> n, items |-> items]
JString(s) == JValue("string", s, 0, <<>>)
JNumber(n) == JValue("number", <<>>, n, <<>>)
JBoolean(b) == JValue("boolean", <<>>, IF b THEN 1 ELSE 0, <<>>)
JNull == JValue("null", <<>>, 0, <<>>)
JArray(items) == JValue("array", <<>>, 0, items)
\* an object: its own properties, in property order
JObject(props) == JValue("object", <<>>, 0, props)
Prop(key, val) == [key |-> key, value |-> val]

TypeOf(v) == IF "t" \in DOMAIN v THEN v.t ELSE v.type

\* position of the property named key, 0 when the object has none
IndexOfKey(props, key) ==
    IF \E k \in DOMAIN props : props[k].key = key
    THEN CHOOSE k \in DOMAIN props : props[k].key = key
    ELSE 0

HasKey(v, key) == TypeOf(v) = "object" /\ IndexOfKey(v.items, key) > 0

\* v[key]: undefined for a missing property and for a value without properties
Get(v, key) ==
    IF HasKey(v, key) THEN v.items[IndexOfKey(v.items, key)].value ELSE undefined

----------------------------------------------------------------------------
(* JSON.stringify(value, null, 2) *)

RECURSIVE Concat(_, _)
\* the parts joined by sep
Concat(parts, sep) ==
    IF parts = <<>> THEN <<>>
    ELSE IF Len(parts) = 1 THEN parts[1]
    ELSE parts[1] \o sep \o Concat(Tail(parts), sep)

Spaces(n) == [k \in 1..n |-> " "]

\* variant: the characters between quotes as they are
QuoteRaw(s) == <<"\"">> \o s \o <<"\"">>

\* QuoteJSONString: '"' and '\' and the line feed are escaped
Quote(s) ==
    <<"\"">>
    \o Concat([k \in DOMAIN s |->
                  IF s[k] = "\"" THEN <<"\\", "\"">>
                  ELSE IF s[k] = "\\" THEN <<"\\", "\\">>
                  ELSE IF s[k] = "\n" THEN <<"\\", "n">>
                  ELSE <<s[k]>>], <<>>)
    \o <<"\"">>

RECURSIVE DecimalDigits(_)
DecimalDigits(n) ==
    IF n < 10 THEN <<Digits36[n + 1]>>
    ELSE DecimalDigits(n \div 10) \o <<Digits36[(n % 10) + 1]>>

\* Number::toString of an integer
NumberText(n) == IF n < 0 THEN <<"-">> \o DecimalDigits(-n) ELSE DecimalDigits(n)

\* values JSON.stringify leaves out of objects and writes as null in arrays
IsOmitted(v) == TypeOf(v) \in {"undefined", "function"}

RECURSIVE stringify(_, _)
\* SerializeJSONProperty with gap of two spaces, indent the current indentation
stringify(v, indent) ==
    LET inner == indent + 2
        line == <<",", "\n">> \o Spaces(inner)
    IN CASE TypeOf(v) = "string" -> Quote(v.s)
         [] TypeOf(v) = "number" -> NumberText(v.n)
         [] TypeOf(v) = "boolean" ->
              IF v.n = 1 THEN <<"t", "r", "u", "e">> ELSE <<"f", "a", "l", "s", "e">>
         [] TypeOf(v) = "null" -> <<"n", "u", "l", "l">>
         [] TypeOf(v) = "array" ->
              IF v.items = <<>> THEN <<"[", "]">>
              ELSE <<"[", "\n">> \o Spaces(inner)
                   \o Concat([k \in DOMAIN v.items |->
                                 IF IsOmitted(v.items[k]) THEN <<"n", "u", "l", "l">>
                                 ELSE stringify(v.items[k], inner)], line)
                   \o <<"\n">> \o Spaces(indent) \o <<"]">>
         [] TypeOf(v) = "object" ->
              LET props == SelectSeq(v.items, LAMBDA p : ~IsOmitted(p.value)) IN
              IF props = <<>> THEN <<"{", "}">>
              ELSE <<"{", "\n">> \o Spaces(inner)
                   \o Concat([k \in DOMAIN props |->
                                 Quote(props[k].key) \o <<":", " ">>
                                 \o stringify(props[k].value, inner)], line)
                   \o <<"\n">> \o Spaces(indent) \o <<"}">>

\* persist.ts
serializeRecording(recording) == stringify(recording, 0)
serializeScenario(scn) == stringify(scn, 0)

----------------------------------------------------------------------------
(* JSON.parse(text): texts of strings, integers, literals, arrays, objects *)

WhiteSpace == {" ", "\n", "\t", "\r"}
DecimalChars == {"0", "1", "2", "3", "4", "5", "6", "7", "8", "9"}

\* first position from i on that holds no white space
SkipWhiteSpace(s, i) == i + RunIn(s, i, WhiteSpace)

\* a value parsed up to position next - 1, or no value
Parsed(v, next) == [ok |-> TRUE, value |-> v, next |-> next]
Unparsed == [ok |-> FALSE, value |-> undefined, next |-> 0]

CharAt(s, i) == IF i <= Len(s) THEN s[i] ELSE "end"

RECURSIVE parseString(_, _, _)
\* the characters after an opening quote, up to the closing one
parseString(s, i, acc) ==
    LET c == CharAt(s, i) IN
    IF c = "end" \/ c \in {"\n", "\t", "\r"} THEN Unparsed
    ELSE IF c = "\"" THEN Parsed(JString(acc), i + 1)
    ELSE IF c = "\\"
    THEN LET e == CharAt(s, i + 1) IN
         IF e \in {"\"", "\\", "/"} THEN parseString(s, i + 2, Append(acc, e))
         ELSE IF e = "n" THEN parseString(s, i + 2, Append(acc, "\n"))
         ELSE IF e = "t" THEN parseString(s, i + 2, Append(acc, "\t"))
         ELSE IF e = "r" THEN parseString(s, i + 2, Append(acc, "\r"))
         ELSE Unparsed
    ELSE parseString(s, i + 1, Append(acc, c))

RECURSIVE DecimalValue(_)
DecimalValue(ds) ==
    IF ds = <<>> THEN 0
    ELSE 10 * DecimalValue(SubSeq(ds, 1, Len(ds) - 1))
         + (CHOOSE d \in 0..9 : Digits36[d + 1] = ds[Len(ds)])

\* '-'? ('0' | [1-9][0-9]*), i the position after the sign
parseNumber(s, i, sign) ==
    LET n == IF CharAt(s, i) = "0" THEN 1 ELSE RunIn(s, i, DecimalChars) IN
    IF n = 0 THEN Unparsed
    ELSE Parsed(JNumber(sign * DecimalValue(SubSeq(s, i, i + n - 1))), i + n)

\* the property set, last value for a repeated key, at the key's first place
SetProp(props, key, val) ==
    IF IndexOfKey(props, key) = 0 THEN Append(props, Prop(key, val))
    ELSE [props EXCEPT ![IndexOfKey(props, key)] = Prop(key, val)]

RECURSIVE parseValue(_, _)
RECURSIVE parseElements(_, _, _)
RECURSIVE parseMembers(_, _, _)

parseValue(s, i0) ==
    LET i == SkipWhiteSpace(s, i0)
        c == CharAt(s, i)
    IN IF c = "{"
       THEN IF CharAt(s, SkipWhiteSpace(s, i + 1)) = "}"
            THEN Parsed(JObject(<<>>), SkipWhiteSpace(s, i + 1) + 1)
            ELSE parseMembers(s, i + 1, <<>>)
       ELSE IF c = "["
       THEN IF CharAt(s, SkipWhiteSpace(s, i + 1)) = "]"
            THEN Parsed(JArray(<<>>), SkipWhiteSpace(s, i + 1) + 1)
            ELSE parseElements(s, i + 1, <<>>)
       ELSE IF c = "\"" THEN parseString(s, i + 1, <<>>)
       ELSE IF c = "-" THEN parseNumber(s, i + 1, -1)
       ELSE IF c \in DecimalChars THEN parseNumber(s, i, 1)
       ELSE IF StartsAt(s, i, <<"n", "u", "l", "l">>) THEN Parsed(JNull, i + 4)
       ELSE IF StartsAt(s, i, <<"t", "r", "u", "e">>) THEN Parsed(JBoolean(TRUE), i + 4)
       ELSE IF StartsAt(s, i, <<"f", "a", "l", "s", "e">>)
       THEN Parsed(JBoolean(FALSE), i + 5)
       ELSE Unparsed

\* the elements of an array from position i on, acc those before
parseElements(s, i, acc) ==
    LET element == parseValue(s, i) IN
    IF ~element.ok THEN Unparsed
    ELSE LET j == SkipWhiteSpace(s, element.next)
             items == Append(acc, element.value)
         IN IF CharAt(s, j) = "," THEN parseElements(s, j + 1, items)
            ELSE IF CharAt(s, j) = "]" THEN Parsed(JArray(items), j + 1)
            ELSE Unparsed

\* the members of an object from position i on, acc those before
parseMembers(s, i, acc) ==
    LET k == SkipWhiteSpace(s, i)
        key == IF CharAt(s, k) = "\"" THEN parseString(s, k + 1, <<>>) ELSE Unparsed
    IN IF ~key.ok THEN Unparsed
       ELSE LET colon == SkipWhiteSpace(s, key.next)
                member == IF CharAt(s, colon) = ":" THEN parseValue(s, colon + 1)
                          ELSE Unparsed
            IN IF ~member.ok THEN Unparsed
               ELSE LET j == SkipWhiteSpace(s, member.next)
                        props == SetProp(acc, key.value.s, member.value)
                    IN IF CharAt(s, j) = "," THEN parseMembers(s, j + 1, props)
                       ELSE IF CharAt(s, j) = "}" THEN Parsed(JObject(props), j + 1)
                       ELSE Unparsed

\* JSON.parse: the value of the whole text, or a SyntaxError
JSONparse(s) ==
    LET v == parseValue(s, 1) IN
    IF ~v.ok THEN Throw
    ELSE IF SkipWhiteSpace(s, v.next) <= Len(s) THEN Throw
    ELSE Return(v.value)

\* persist.ts: the cast 'as Recording' / 'as Scenario' checks nothing at run time
deserializeRecording(text) == JSONparse(text)
deserializeScenario(text) == JSONparse(text)

----------------------------------------------------------------------------
(* scenarios and recordings as JSON-representable values *)

\* property names as strings of characters
Key(f) ==
    CASE f = "id" -> <<"i", "d">>
      [] f = "request" -> <<"r", "e", "q", "u", "e", "s", "t">>
      [] f = "response" -> <<"r", "e", "s", "p", "o", "n", "s", "e">>
      [] f = "method" -> <<"m", "e", "t", "h", "o", "d">>
      [] f = "url" -> <<"u", "r", "l">>
      [] f = "path" -> <<"p", "a", "t", "h">>
      [] f = "timestamp" -> <<"t", "i", "m", "e", "s", "t", "a", "m", "p">>
      [] f = "status" -> <<"s", "t", "a", "t", "u", "s">>
      [] f = "statusText" -> <<"s", "t", "a", "t", "u", "s", "T", "e", "x", "t">>
      [] f = "headers" -> <<"h", "e", "a", "d", "e", "r", "s">>
      [] f = "body" -> <<"b", "o", "d", "y">>
      [] f = "name" -> <<"n", "a", "m", "e">>
      [] f = "description" -> <<"d", "e", "s", "c", "r", "i", "p", "t", "i", "o", "n">>
      [] f = "recordings" -> <<"r", "e", "c", "o", "r", "d", "i", "n", "g", "s">>
      [] f = "createdAt" -> <<"c", "r", "e", "a", "t", "e", "d", "A", "t">>
      [] f = "updatedAt" -> <<"u", "p", "d", "a", "t", "e", "d", "A", "t">>

MaxStoredRecordings == 1

\* bodies: any JSON-representable value
StoredBodies ==
    <<JNull,
      JNumber(-7),
      JNumber(1050),
      JBoolean(FALSE),
      JString(<<"a", "\"", "b">>),
      JString(<<"\\", "\n", " ">>),
      JArray(<<>>),
      JObject(<<>>),
      JArray(<<JObject(<<Prop(Key("id"), JNumber(1)), Prop(Key("name"), JString(<<"J">>))>>),
               JNull, JBoolean(TRUE)>>),
      JObject(<<Prop(Key("headers"), JArray(<<JNumber(0)>>))>>)>>

StoredNames == <<(<<"s">>), <<"a", "\"">>, <<"\\", "n">>, <<>>>>

\* a Recording (types.ts): body 0 stands for a response without body
StoredRecording(k, b) ==
    JObject(<<Prop(Key("id"), JString(<<"z", "-", Digits36[k + 1]>>)),
              Prop(Key("request"),
                   JObject(<<Prop(Key("method"), JString(GET)),
                             Prop(Key("url"), JString(<<"/", "a">>)),
                             Prop(Key("path"), JString(<<"/", "a">>)),
                             Prop(Key("timestamp"), JNumber(35))>>)),
              Prop(Key("response"),
                   JObject(<<Prop(Key("status"), JNumber(200))>>
                           \o (IF b = 0 THEN <<>>
                               ELSE <<Prop(Key("body"), StoredBodies[b])>>)
                           \o <<Prop(Key("timestamp"), JNumber(36))>>))>>)

\* a Scenario (types.ts), its properties in the order createScenario and
\* addRecordingToScenario give them
StoredScenario(name, described, bodies) ==
    JObject(<<Prop(Key("name"), JString(name)),
              Prop(Key("recordings"),
                   JArray([k \in DOMAIN bodies |-> StoredRecording(k, bodies[k])])),
              Prop(Key("createdAt"), JNumber(35)),
              Prop(Key("updatedAt"), JNumber(36))>>
            \o (IF described THEN <<Prop(Key("description"), JString(<<"d", " ", "e">>))>>
                ELSE <<>>))

IsStoredScenario(v) == HasKey(v, Key("recordings"))

InitPersist ==
    /\ \/ \E n \in DOMAIN StoredNames, d \in BOOLEAN, k \in 0..MaxStoredRecordings :
            \E bodies \in [1..k -> 0..Len(StoredBodies)] :
                original = StoredScenario(StoredNames[n], d, bodies)
       \/ \E b \in 0..Len(StoredBodies) : original = StoredRecording(1, b)
    /\ json = <<>>
    /\ loaded = Pending
    /\ MatchIdle /\ LookupIdle
    /\ HistoryIdle /\ RecorderIdle
    /\ CliIdle

CallSerializeScenario ==
    /\ IsStoredScenario(original)
    /\ json' = serializeScenario(original)
    /\ UNCHANGED <<original, loaded>>
    /\ UNCHANGED <<matchVars, lookupVars, historyVars, recorderVars, cliVars>>

CallDeserializeScenario ==
    /\ IsStoredScenario(original)
    /\ json # <<>>
    /\ loaded' = deserializeScenario(json)
    /\ UNCHANGED <<original, json>>
    /\ UNCHANGED <<matchVars, lookupVars, historyVars, recorderVars, cliVars>>

CallSerializeRecording ==
    /\ ~IsStoredScenario(original)
    /\ json' = serializeRecording(original)
    /\ UNCHANGED <<original, loaded>>
    /\ UNCHANGED <<matchVars, lookupVars, historyVars, recorderVars, cliVars>>

CallDeserializeRecording ==
    /\ ~IsStoredScenario(original)
    /\ json # <<>>
    /\ loaded' = deserializeRecording(json)
    /\ UNCHANGED <<original, json>>
    /\ UNCHANGED <<matchVars, lookupVars, historyVars, recorderVars, cliVars>>

NextPersist ==
    \/ CallSerializeScenario
    \/ CallDeserializeScenario
    \/ CallSerializeRecording
    \/ CallDeserializeRecording

SpecPersist == InitPersist /\ [][NextPersist]_vars

----------------------------------------------------------------------------
(* the replay handler over a value that deserializeScenario returned *)

TypeError == [kind |-> "throw", value |-> "TypeError"]

\* reading a property of null or undefined throws
IsNullish(v) == TypeOf(v) \in {"null", "undefined"}

\* matchPath(pattern, path) for a pattern of any type: a string is matched
\* as match.ts does; an array has includes and, holding neither ':' nor '*',
\* gives false; any other value has no includes method
matchLoadedPath(p, q) ==
    IF TypeOf(p) = "string" THEN matchPath(p.s, q)
    ELSE IF TypeOf(p) = "array"
    THEN IF \E k \in DOMAIN p.items :
                p.items[k] \in {JString(<<":">>), JString(<<"*">>)}
         THEN TypeError
         ELSE Return(FALSE)
    ELSE TypeError

\* matchRequest(recorded, incoming)
matchLoadedRequest(recorded, incoming) ==
    IF IsNullish(recorded) THEN TypeError
    ELSE LET methodMatches == Get(recorded, Key("method")) = JString(incoming.method)
             pathMatches == matchLoadedPath(Get(recorded, Key("path")), incoming.path)
         IN IF pathMatches.kind = "throw" THEN pathMatches
            ELSE Return(methodMatches /\ pathMatches.value)

RECURSIVE findLoadedRecording(_, _, _)
\* scenario.recordings.find((rec) => matchRequest(rec.request, request))
findLoadedRecording(recs, i, incoming) ==
    IF i > Len(recs) THEN Return(undefined)
    ELSE IF IsNullish(recs[i]) THEN TypeError
    ELSE LET r == matchLoadedRequest(Get(recs[i], Key("request")), incoming) IN
         IF r.kind = "throw" THEN r
         ELSE IF r.value THEN Return(recs[i])
         ELSE findLoadedRecording(recs, i + 1, incoming)

\* the handler of createReplayHandler(scn) applied to a request
loadedHandler(scn, req) ==
    IF IsNullish(scn) \/ TypeOf(Get(scn, Key("recordings"))) # "array" THEN TypeError
    ELSE LET recording == findLoadedRecording(Get(scn, Key("recordings")).items, 1, req) IN
         IF recording.kind = "throw" THEN recording
         ELSE IF recording.value = undefined THEN Return(undefined)
         ELSE LET response == Get(recording.value, Key("response")) IN
              IF IsNullish(response) THEN TypeError
              ELSE Return([f \in {g \in {"status", "body", "statusText", "headers"} :
                                    Get(response, Key(g)) # undefined}
                             |-> Get(response, Key(f))])

----------------------------------------------------------------------------
(* fs.ts readScenario: stored content deserialized, then replayed *)

\* a scenario as writeScenario stores it
StoredText == serializeScenario(StoredScenario(<<"s">>, TRUE, <<5>>))

\* values that are no Scenario
NoScenarios ==
    <<JObject(<<>>),
      JArray(<<>>),
      JNull,
      JNumber(42),
      JString(<<"s">>),
      JObject(<<Prop(Key("name"), JString(<<"s">>))>>),
      JObject(<<Prop(Key("recordings"), JArray(<<>>))>>),
      JObject(<<Prop(Key("name"), JString(<<"s">>)), Prop(Key("recordings"), JObject(<<>>))>>),
      JObject(<<Prop(Key("name"), JString(<<"s">>)), Prop(Key("recordings"), JArray(<<JNull>>))>>),
      JObject(<<Prop(Key("name"), JString(<<"s">>)),
                Prop(Key("recordings"), JArray(<<JObject(<<>>)>>))>>),
      JObject(<<Prop(Key("name"), JNumber(1)),
                Prop(Key("recordings"),
                     JArray(<<JObject(<<Prop(Key("request"),
                                JObject(<<Prop(Key("method"), JString(GET)),
                                          Prop(Key("path"), JString(<<"/", "a">>))>>))>>)>>))>>)>>

\* what a scenario file may hold: a stored scenario, whole or cut short, or
\* the text of another value
StoredContents ==
    {SubSeq(StoredText, 1, k) : k \in 0..Len(StoredText)}
    \cup {stringify(NoScenarios[k], 0) : k \in DOMAIN NoScenarios}

LoadRequests == {[method |-> GET, path |-> <<"/", "a">>],
                 [method |-> POST, path |-> <<"/", "x">>]}

InitLoad ==
    /\ original = undefined
    /\ json = <<>>
    /\ loaded = Pending
    /\ MatchIdle /\ LookupIdle
    /\ HistoryIdle /\ RecorderIdle
    /\ CliIdle

\* readScenario once the file exists: readFile, then deserializeScenario
CallReadScenario(content) ==
    /\ loaded = Pending
    /\ json' = content
    /\ loaded' = deserializeScenario(content)
    /\ UNCHANGED original
    /\ UNCHANGED <<matchVars, lookupVars, historyVars, recorderVars, cliVars>>

\* createReplayHandler(scenario)(req) with the scenario readScenario returned
CallLoadedHandler(req) ==
    /\ loaded.kind = "return"
    /\ request' = req
    /\ found' = loadedHandler(loaded.value, req)
    /\ UNCHANGED <<mocks, scenario>>
    /\ UNCHANGED <<matchVars, historyVars, recorderVars, persistVars, cliVars>>

NextLoad ==
    \/ \E content \in StoredContents : CallReadScenario(content)
    \/ \E req \in LoadRequests : CallLoadedHandler(req)

SpecLoad == InitLoad /\ [][NextLoad]_vars

----------------------------------------------------------------------------
(* The scenario files (cli/src/fs.ts) on a file system *)

\* String.prototype.split('/')
RECURSIVE split(_)
split(s) ==
    LET n == RunNotIn(s, 1, {"/"}) IN
    IF n >= Len(s) THEN <<s>>
    ELSE <<SubSeq(s, 1, n)>> \o split(Drop(s, n + 1))

\* path.normalize on the segments of a relative path: '' and '.' vanish,
\* '..' takes the segment before it away
RECURSIVE normalize(_, _)
normalize(segs, acc) ==
    IF segs = <<>> THEN acc
    ELSE IF Head(segs) \in {<<>>, <<".">>} THEN normalize(Tail(segs), acc)
    ELSE IF Head(segs) = <<".", ".">> /\ acc # <<>> /\ acc[Len(acc)] # <<".", ".">>
         THEN normalize(Tail(segs), SubSeq(acc, 1, Len(acc) - 1))
    ELSE normalize(Tail(segs), Append(acc, Head(segs)))

\* path.join(a, b): the normalised segments of a + '/' + b
pathJoin(a, b) == normalize(split(a \o <<"/">> \o b), <<>>)

\* the join without normalisation: one segment per argument
pathJoinVerbatim(a, b) == <<a, b>>

getScenarioPath(scenariosDir, scenarioName) ==
    pathJoin(scenariosDir, scenarioName \o <<".", "j", "s", "o", "n">>)

dirname(p) == SubSeq(p, 1, Len(p) - 1)
basename(p) == p[Len(p)]
endsWith(s, w) == Len(s) >= Len(w) /\ SubSeq(s, Len(s) - Len(w) + 1, Len(s)) = w

\* a disk: the directories that exist (the working directory <<>> always
\* does) and the text of every file, by normalised path
EmptyDisk == [dirs |-> {<<>>}, files |-> <<>>]

Reject == [kind |-> "throw", value |-> "ENOENT"]

\* fs.ensureDir: the directory and its ancestors exist afterwards
ensureDir(d, p) ==
    [d EXCEPT !.dirs = @ \cup {SubSeq(p, 1, k) : k \in 0..Len(p)}]

\* fs.writeFile: needs the parent directory
writeFile(d, p, text) ==
    IF dirname(p) \in d.dirs /\ p \notin d.dirs
    THEN [disk |-> [d EXCEPT !.files =
                        [q \in DOMAIN d.files \cup {p} |->
                            IF q = p THEN text ELSE d.files[q]]],
          outcome |-> Return(undefined)]
    ELSE [disk |-> d, outcome |-> Reject]

pathExists(d, p) == p \in DOMAIN d.files \/ p \in d.dirs

readFile(d, p) == IF p \in DOMAIN d.files THEN Return(d.files[p]) ELSE Reject

\* fs.remove: no error when nothing is there
remove(d, p) ==
    [dirs |-> {q \in d.dirs : q = <<>> \/ Len(q) < Len(p) \/ SubSeq(q, 1, Len(p)) # p},
     files |-> [q \in {r \in DOMAIN d.files : Len(r) < Len(p) \/ SubSeq(r, 1, Len(p)) # p}
                  |-> d.files[q]]]

\* fs.readdir: the paths of the files of a directory
readdir(d, p) == {q \in DOMAIN d.files : dirname(q) = p}

\* writeScenario (fs.ts 32-37)
writeScenario(d, scenariosDir, scn) ==
    LET made == ensureDir(d, normalize(split(scenariosDir), <<>>))
        filePath == getScenarioPath(scenariosDir, Get(scn, Key("name")).s)
    IN writeFile(made, filePath, serializeScenario(scn))

\* readScenario (fs.ts 45-58) when nothing runs between its awaits
readScenario(d, scenariosDir, scenarioName) ==
    LET filePath == getScenarioPath(scenariosDir, scenarioName) IN
    IF ~pathExists(d, filePath) THEN Return(undefined)
    ELSE LET content == readFile(d, filePath) IN
         IF content.kind = "throw" THEN content
         ELSE deserializeScenario(content.value)

\* deleteScenario (fs.ts 104-107)
deleteScenario(d, scenariosDir, scenarioName) ==
    [disk |-> remove(d, getScenarioPath(scenariosDir, scenarioName)),
     outcome |-> Return(undefined)]

\* ScenarioMetadata of one file (fs.ts 75-94)
Metadata(filePath, scn) ==
    LET meta == [name |-> Get(scn, Key("name")),
                 recordingsCount |-> Len(Get(scn, Key("recordings")).items),
                 createdAt |-> Get(scn, Key("createdAt")),
                 updatedAt |-> Get(scn, Key("updatedAt")),
                 filePath |-> filePath]
    IN IF Get(scn, Key("description")) # undefined
       THEN [name |-> meta.name, recordingsCount |-> meta.recordingsCount,
             createdAt |-> meta.createdAt, updatedAt |-> meta.updatedAt,
             filePath |-> filePath,
             description |-> Get(scn, Key("description"))]
       ELSE meta

\* the metadata of the files in the order readdir gives them
RECURSIVE MetadataOf(_, _)
MetadataOf(d, files) ==
    IF files = {} THEN <<>>
    ELSE LET f == CHOOSE g \in files : TRUE
         IN <<Metadata(f, deserializeScenario(d.files[f]).value)>>
            \o MetadataOf(d, files \ {f})

\* listScenarios (fs.ts 65-97)
listScenarios(d, scenariosDir) ==
    LET dirPath == normalize(split(scenariosDir), <<>>)
        jsonFiles == {f \in readdir(d, dirPath) :
                          endsWith(basename(f), <<".", "j", "s", "o", "n">>)}
    IN IF ~pathExists(d, dirPath) THEN Return(<<>>)
       ELSE IF \E f \in jsonFiles : deserializeScenario(d.files[f]).kind = "throw"
            THEN Throw
       ELSE Return(MetadataOf(d, jsonFiles))

ScenariosDir == <<"d">>

\* scenario names: plain ones, and ones that path.join rewrites
StoreNames ==
    {<<"a">>, <<"b">>, <<".", "/", "a">>, <<".", ".", "/", "a">>, <<"s", "/", "a">>}

\* two scenarios per name
StoreScenario(name, v) ==
    IF v = 1 THEN StoredScenario(name, FALSE, <<>>)
    ELSE StoredScenario(name, TRUE, <<5>>)

StoreScenarios == {StoreScenario(n, v) : n \in StoreNames, v \in 1..2}

Settled(op, name, outcome) == [op |-> op, name |-> name, outcome |-> outcome]

InitStore ==
    /\ disk = EmptyDisk
    /\ journal = [n \in StoreNames |-> undefined]
    /\ last = Pending
    /\ reading = Pending
    /\ MatchIdle /\ LookupIdle /\ HistoryIdle /\ RecorderIdle /\ PersistIdle
    /\ SequenceIdle /\ GenerateIdle /\ RefsIdle

\* await writeScenario(ScenariosDir, scn)
AwaitWriteScenario(scn) ==
    LET w == writeScenario(disk, ScenariosDir, scn)
        name == Get(scn, Key("name")).s
    IN /\ disk' = w.disk
       /\ journal' = IF w.outcome = Return(undefined)
                     THEN [journal EXCEPT ![name] = scn]
                     ELSE journal
       /\ last' = Settled("write", name, w.outcome)
       /\ UNCHANGED reading
       /\ UNCHANGED <<matchVars, lookupVars, historyVars, recorderVars, persistVars>>
       /\ UNCHANGED <<sequenceVars, generateVars, refsVars>>

\* await deleteScenario(ScenariosDir, name)
AwaitDeleteScenario(name) ==
    LET r == deleteScenario(disk, ScenariosDir, name) IN
    /\ disk' = r.disk
    /\ journal' = [journal EXCEPT ![name] = undefined]
    /\ last' = Settled("delete", name, r.outcome)
    /\ UNCHANGED reading
    /\ UNCHANGED <<matchVars, lookupVars, historyVars, recorderVars, persistVars>>
    /\ UNCHANGED <<sequenceVars, generateVars, refsVars>>

\* await readScenario(ScenariosDir, name)
AwaitReadScenario(name) ==
    /\ last' = Settled("read", name, readScenario(disk, ScenariosDir, name))
    /\ UNCHANGED <<disk, journal, reading>>
    /\ UNCHANGED <<matchVars, lookupVars, historyVars, recorderVars, persistVars>>
    /\ UNCHANGED <<sequenceVars, generateVars, refsVars>>

\* await listScenarios(ScenariosDir)
AwaitListScenarios ==
    /\ last' = Settled("list", <<>>, listScenarios(disk, ScenariosDir))
    /\ UNCHANGED <<disk, journal, reading>>
    /\ UNCHANGED <<matchVars, lookupVars, historyVars, recorderVars, persistVars>>
    /\ UNCHANGED <<sequenceVars, generateVars, refsVars>>

NextStore ==
    \/ \E scn \in StoreScenarios : AwaitWriteScenario(scn)
    \/ \E name \in StoreNames : AwaitDeleteScenario(name)
    \/ \E name \in StoreNames : AwaitReadScenario(name)
    \/ AwaitListScenarios

SpecStore == InitStore /\ [][NextStore]_vars

\* readScenario up to its first await: the existence check (fs.ts 46-53)
BeginRead(name) ==
    /\ reading = Pending
    /\ IF pathExists(disk, getScenarioPath(ScenariosDir, name))
       THEN /\ reading' = [name |-> name,
                           filePath |-> getScenarioPath(ScenariosDir, name)]
            /\ UNCHANGED last
       ELSE /\ reading' = Pending
            /\ last' = Settled("read", name, Return(undefined))
    /\ UNCHANGED <<disk, journal>>
    /\ UNCHANGED <<matchVars, lookupVars, historyVars, recorderVars, persistVars>>
    /\ UNCHANGED <<sequenceVars, generateVars, refsVars>>

\* readScenario after the check: the file read and the parse (fs.ts 56-57)
EndRead ==
    /\ reading # Pending
    /\ LET content == readFile(disk, reading.filePath) IN
       last' = Settled("read", reading.name,
                       IF content.kind = "throw" THEN content
                       ELSE deserializeScenario(content.value))
    /\ reading' = Pending
    /\ UNCHANGED <<disk, journal>>
    /\ UNCHANGED <<matchVars, lookupVars, historyVars, recorderVars, persistVars>>
    /\ UNCHANGED <<sequenceVars, generateVars, refsVars>>

\* a readScenario running while writes and deletes of other callers settle
NextRace ==
    \/ \E scn \in StoreScenarios : AwaitWriteScenario(scn)
    \/ \E name \in StoreNames : AwaitDeleteScenario(name)
    \/ \E name \in StoreNames : BeginRead(name)
    \/ EndRead

SpecRace == InitStore /\ [][NextRace]_vars

----------------------------------------------------------------------------
(* Sequence counters of the data factories (factory.ts) *)

\* Map.prototype.get(key) ?? 0
CounterOf(sequences, name) ==
    IF name \in DOMAIN sequences THEN sequences[name] ELSE 0

\* Map.prototype.set(key, n)
SetCounter(sequences, name, n) ==
    [k \in DOMAIN sequences \cup {name} |-> IF k = name THEN n ELSE sequences[k]]

\* a counter that hands out its current value, starting at 0
getNextSequenceFromZero(sequences, arg) ==
    LET name == IF arg = undefined THEN <<"d", "e", "f", "a", "u", "l", "t">> ELSE arg.s
        current == CounterOf(sequences, name)
    IN [sequences |-> SetCounter(sequences, name, current + 1), value |-> current]

\* getNextSequence(name = 'default'): the Map afterwards and the value returned
getNextSequence(sequences, arg) ==
    LET name == IF arg = undefined THEN <<"d", "e", "f", "a", "u", "l", "t">> ELSE arg.s
        current == CounterOf(sequences, name)
        next == current + 1
    IN [sequences |-> SetCounter(sequences, name, next), value |-> next]

MaxIssued == 4

\* the factories whose build calls ctx.sequence
Factories == {"user", "post"}

\* arguments of ctx.sequence: none, 'default', 'id', ''
SequenceArgs ==
    <<undefined, JString(<<"d", "e", "f", "a", "u", "l", "t">>),
      JString(<<"i", "d">>), JString(<<>>)>>

InitSequences ==
    /\ globalSequences = <<>>
    /\ issued = <<>>
    /\ MatchIdle /\ LookupIdle /\ HistoryIdle /\ RecorderIdle /\ PersistIdle
    /\ StoreIdle /\ GenerateIdle /\ RefsIdle

\* build(factory) evaluating a definition entry (ctx) => ctx.sequence(arg)
CallSequence(factory, arg) ==
    LET r == getNextSequence(globalSequences, arg) IN
    /\ Len(issued) < MaxIssued
    /\ globalSequences' = r.sequences
    /\ issued' = Append(issued, [factory |-> factory, arg |-> arg, value |-> r.value])
    /\ UNCHANGED <<matchVars, lookupVars, historyVars, recorderVars, persistVars>>
    /\ UNCHANGED <<storeVars, generateVars, refsVars>>

\* resetSequences(): globalSequences.clear()
CallResetSequences ==
    /\ globalSequences' = <<>>
    /\ issued' = <<>>
    /\ UNCHANGED <<matchVars, lookupVars, historyVars, recorderVars, persistVars>>
    /\ UNCHANGED <<storeVars, generateVars, refsVars>>

NextSequences ==
    \/ \E factory \in Factories, k \in DOMAIN SequenceArgs :
           CallSequence(factory, SequenceArgs[k])
    \/ CallResetSequences

SpecSequences == InitSequences /\ [][NextSequences]_vars

----------------------------------------------------------------------------
(* Scenarios generated from an OpenAPI spec (cli generate.ts, openapi extractor.ts) *)

\* an object is the list of its properties in the order they were added
Lookup(props, key) ==
    IF \E i \in DOMAIN props : props[i].key = key
    THEN props[CHOOSE i \in DOMAIN props : props[i].key = key].value
    ELSE undefined

\* a property name that is an array index: a decimal numeral without
\* leading zero (names of at most nine digits)
IsArrayIndex(key) ==
    /\ key # <<>> /\ Len(key) <= 9
    /\ \A i \in DOMAIN key : key[i] \in DecimalChars
    /\ Len(key) = 1 \/ key[1] # "0"

RECURSIVE AscendingIndices(_, _)
AscendingIndices(props, at) ==
    IF at = {} THEN <<>>
    ELSE LET m == CHOOSE i \in at : \A j \in at :
                      DecimalValue(props[i].key) <= DecimalValue(props[j].key)
         IN <<props[m]>> \o AscendingIndices(props, at \ {m})

\* Object.entries in the order the properties were added
entriesAsAdded(props) == props

\* Object.entries: array-index names first, ascending, then the other names
\* in the order they were added
ObjectEntries(props) ==
    AscendingIndices(props, {i \in DOMAIN props : IsArrayIndex(props[i].key)})
    \o SelectSeq(props, LAMBDA p : ~IsArrayIndex(p.key))

NaN == [nan |-> TRUE, n |-> 0]

\* parseInt(s) of a text without radix prefix: white space, a sign, then the
\* longest run of decimal digits; NaN when there is none
parseInt(s) ==
    LET start == 1 + RunIn(s, 1, WhiteSpace)
        signed == start <= Len(s) /\ s[start] \in {"+", "-"}
        first == IF signed THEN start + 1 ELSE start
        n == RunIn(s, first, DecimalChars)
        magnitude == DecimalValue(SubSeq(s, first, first + n - 1))
    IN IF n = 0 THEN NaN
       ELSE [nan |-> FALSE,
             n |-> IF signed /\ s[start] = "-" THEN -magnitude ELSE magnitude]

\* openapiPath.replace(/\{([^}]+)\}/, ':$1'): the first match only
RECURSIVE convertFirstOnly(_, _)
convertFirstOnly(s, i) ==
    IF i > Len(s) THEN <<>>
    ELSE LET n == RunNotIn(s, i + 1, {"}"}) IN
         IF s[i] = "{" /\ n >= 1 /\ i + n + 1 <= Len(s)
         THEN <<":">> \o SubSeq(s, i + 1, i + n) \o SubSeq(s, i + n + 2, Len(s))
         ELSE <<s[i]>> \o convertFirstOnly(s, i + 1)

\* openapiPath.replace(/\{([^}]+)\}/g, ':$1'), from position i on
RECURSIVE convertFrom(_, _)
convertFrom(s, i) ==
    IF i > Len(s) THEN <<>>
    ELSE LET n == RunNotIn(s, i + 1, {"}"}) IN
         IF s[i] = "{" /\ n >= 1 /\ i + n + 1 <= Len(s)
         THEN <<":">> \o SubSeq(s, i + 1, i + n) \o convertFrom(s, i + n + 2)
         ELSE <<s[i]>> \o convertFrom(s, i + 1)

convertPathFormatOnce(openapiPath) == convertFirstOnly(openapiPath, 1)

convertPathFormat(openapiPath) == convertFrom(openapiPath, 1)

HTTP_METHODS == <<<<"g", "e", "t">>, <<"p", "o", "s", "t">>, <<"p", "u", "t">>, <<"d", "e", "l", "e", "t", "e">>, <<"p", "a", "t", "c", "h">>, <<"o", "p", "t", "i", "o", "n", "s">>, <<"h", "e", "a", "d">>>>

\* extractOperations(path, pathItem)
extractOperations(p, pathItem) ==
    LET present == SelectSeq(HTTP_METHODS, LAMBDA m : Lookup(pathItem, m) # undefined)
    IN [k \in DOMAIN present |->
           [path |-> p, method |-> present[k], operation |-> Lookup(pathItem, present[k])]]

RECURSIVE operationsOf(_, _)
operationsOf(entries, i) ==
    IF i > Len(entries) THEN <<>>
    ELSE extractOperations(entries[i].key, entries[i].value)
         \o operationsOf(entries, i + 1)

\* getAllOperations(spec)
getAllOperations(spec) == operationsOf(ObjectEntries(spec.paths), 1)

IsSuccess(status) ==
    LET code == parseInt(status) IN ~code.nan /\ code.n >= 200 /\ code.n < 300

\* Object.entries(responses).find(([status]) => 200 <= parseInt(status) < 300)
successResponse(responses) ==
    LET entries == ObjectEntries(responses)
        hits == {i \in DOMAIN entries : IsSuccess(entries[i].key)}
    IN IF hits = {} THEN undefined
       ELSE entries[CHOOSE i \in hits : \A j \in hits : i <= j]

\* the recording of one operation (generate.ts 60-104); the body generated
\* from a schema is "generated", without schema it is null
recordingOf(op, response, baseUrl, t, r) ==
    LET hasSchema == response.value.schema
        req == [method |-> toUpperCase(op.method),
                url |-> baseUrl \o op.path,
                path |-> convertPathFormat(op.path),
                timestamp |-> t]
        res == [status |-> parseInt(response.key).n,
                body |-> IF hasSchema THEN "generated" ELSE "null",
                headers |-> IF hasSchema THEN "json" ELSE "empty",
                timestamp |-> t]
    IN createRecording(req, res, t, r)

\* the loop over the operations (generate.ts 46-106)
RECURSIVE recordOperations(_, _, _, _, _, _)
recordOperations(ops, i, scn, baseUrl, t, r) ==
    IF i > Len(ops) THEN scn
    ELSE IF ~Has(ops[i].operation, "responses")
         THEN recordOperations(ops, i + 1, scn, baseUrl, t, r)
    ELSE LET response == successResponse(ops[i].operation.responses) IN
         IF response = undefined
         THEN recordOperations(ops, i + 1, scn, baseUrl, t, r)
         ELSE recordOperations(ops, i + 1,
                  addRecordingToScenario(scn, recordingOf(ops[i], response, baseUrl, t, r),
                                         t).result,
                  baseUrl, t, r)

\* generateScenariosFromSpec(spec, scenarioName), t the value of Date.now()
\* and r the text of Math.random()
generateScenariosFromSpec(spec, scenarioName, t, r) ==
    LET operations == getAllOperations(spec)
        baseUrl == IF Has(spec, "servers") /\ Len(spec.servers) > 0
                   THEN spec.servers[1].url
                   ELSE <<"h", "t", "t", "p", "s", ":", "/", "/", "a", "p", "i", ".", "e", "x", "a", "m", "p", "l", "e", ".", "c", "o", "m">>
        title == <<"G", "e", "n", "e", "r", "a", "t", "e", "d", " ", "f", "r", "o", "m", " ">> \o spec.info.title \o <<" ", "(">>
                 \o spec.info.version \o <<")">>
        description == IF Has(spec.info, "description") /\ spec.info.description # <<>>
                       THEN title \o <<":", " ">> \o spec.info.description
                       ELSE title
        scn == createScenario(scenarioName, [description |-> description], t)
    IN <<recordOperations(operations, 1, scn, baseUrl, t, r)>>

MaxPaths == 2

\* response objects: with and without an application/json schema
WithSchema == [schema |-> TRUE]
WithoutSchema == [schema |-> FALSE]

\* the responses of an operation, in the order of the document
ResponsesPool ==
    <<(<<>>),
      <<Prop(<<"4", "0", "4">>, WithoutSchema), Prop(<<"2", "0", "1">>, WithoutSchema),
        Prop(<<"2", "0", "0">>, WithSchema)>>,
      <<Prop(<<"d", "e", "f", "a", "u", "l", "t">>, WithSchema), Prop(<<"2", "X", "X">>, WithSchema)>>,
      <<Prop(<<"2", "0", "4">>, WithoutSchema)>>,
      <<Prop(<<"3", "0", "0">>, WithSchema), Prop(<<"1", "9", "9">>, WithSchema)>>,
      <<Prop(<<"d", "e", "f", "a", "u", "l", "t">>, WithSchema), Prop(<<"2", "9", "9">>, WithSchema)>>>>

OperationsPool ==
    <<[summary |-> "no responses"]>>
    \o [k \in DOMAIN ResponsesPool |-> [responses |-> ResponsesPool[k]]]

\* path items: the operations of a path by method, in the order of the document
PathItems ==
    {<<Prop(<<"g", "e", "t">>, OperationsPool[a])>> : a \in DOMAIN OperationsPool}
    \cup {<<Prop(<<"p", "o", "s", "t">>, OperationsPool[a]), Prop(<<"g", "e", "t">>, OperationsPool[3])>> :
            a \in DOMAIN OperationsPool}
    \cup {<<Prop(<<"p", "a", "r", "a", "m", "e", "t", "e", "r", "s">>, OperationsPool[1]), Prop(<<"d", "e", "l", "e", "t", "e">>, OperationsPool[5])>>}

\* OpenAPI paths, parameters in braces
OpenApiPaths == <<<<"/", "u">>, <<"/", "u", "/", "{", "i", "d", "}">>, <<"/", "{", "a", "}", "/", "x", "/", "{", "b", "}">>, <<"/", "u", "/", "{", "}">>>>

InfoPool ==
    <<[title |-> <<"T">>, version |-> <<"1">>],
      [title |-> <<"T">>, version |-> <<"1">>, description |-> <<"d">>]>>

\* the path items of the paths after the first
LaterItems ==
    {<<Prop(<<"g", "e", "t">>, OperationsPool[a])>> : a \in {3, 5}}
    \cup {<<Prop(<<"p", "o", "s", "t">>, OperationsPool[2]), Prop(<<"g", "e", "t">>, OperationsPool[3])>>}

\* the specs: up to MaxPaths different paths, each with one of the path items
OpenApiSpecs ==
    {[info |-> InfoPool[1], paths |-> ps] :
        ps \in {q \in UNION {[1..n -> {Prop(OpenApiPaths[k], item) :
                                          k \in DOMAIN OpenApiPaths, item \in PathItems}] :
                               n \in 0..MaxPaths} :
                  /\ \A i, j \in DOMAIN q : i # j => q[i].key # q[j].key
                  /\ \A i \in DOMAIN q : i > 1 => q[i].value \in LaterItems}}
    \cup {[info |-> InfoPool[2], servers |-> <<[url |-> <<"h", "t", "t", "p", ":", "/", "/", "h">>],
             [url |-> <<"h", "t", "t", "p", ":", "/", "/", "g">>]>>,
           paths |-> <<Prop(OpenApiPaths[2], item)>>] : item \in PathItems}

GeneratedName == <<"g", "e", "n">>

InitGenerate ==
    /\ openapi \in OpenApiSpecs
    /\ generated = Pending
    /\ MatchIdle /\ LookupIdle /\ HistoryIdle /\ RecorderIdle /\ PersistIdle
    /\ StoreIdle /\ SequenceIdle /\ RefsIdle

\* generateScenariosFromSpec(openapi, GeneratedName)
CallGenerate(t, r) ==
    /\ generated = Pending
    /\ generated' = Return(generateScenariosFromSpec(openapi, GeneratedName, t, r))
    /\ UNCHANGED openapi
    /\ UNCHANGED <<matchVars, lookupVars, historyVars, recorderVars, persistVars>>
    /\ UNCHANGED <<storeVars, sequenceVars, refsVars>>

NextGenerate ==
    \E t \in Clock, r \in {<<"0", ".", "i">>, <<"0", ".", "1", "a">>} : CallGenerate(t, r)

SpecGenerate == InitGenerate /\ [][NextGenerate]_vars

----------------------------------------------------------------------------
(* Replaying a generated scenario, directly and from its file *)

\* a generated recording as the JSON value JSON.stringify sees
RecordingValue(rec) ==
    JObject(<<Prop(Key("id"), JString(rec.id)),
              Prop(Key("request"),
                   JObject(<<Prop(Key("method"), JString(rec.request.method)),
                             Prop(Key("url"), JString(rec.request.url)),
                             Prop(Key("path"), JString(rec.request.path)),
                             Prop(Key("timestamp"), JNumber(rec.request.timestamp))>>)),
              Prop(Key("response"),
                   JObject(<<Prop(Key("status"), JNumber(rec.response.status)),
                             Prop(Key("body"),
                                  IF rec.response.body = "null" THEN JNull
                                  ELSE JString(<<"g", "e", "n", "e", "r", "a", "t", "e", "d">>)),
                             Prop(Key("headers"),
                                  IF rec.response.headers = "empty" THEN JObject(<<>>)
                                  ELSE JObject(<<Prop(<<"C", "o", "n", "t", "e", "n", "t", "-", "T", "y", "p", "e">>,
                                                      JString(<<"a", "p", "p", "l", "i", "c", "a", "t", "i", "o", "n", "/", "j", "s", "o", "n">>))>>)),
                             Prop(Key("timestamp"), JNumber(rec.response.timestamp))>>))>>)

\* a generated scenario as a JSON value
ScenarioValue(scn) ==
    JObject(<<Prop(Key("name"), JString(scn.name)),
              Prop(Key("recordings"),
                   JArray([k \in DOMAIN scn.recordings |-> RecordingValue(scn.recordings[k])])),
              Prop(Key("createdAt"), JNumber(scn.createdAt)),
              Prop(Key("updatedAt"), JNumber(scn.updatedAt)),
              Prop(Key("description"), JString(scn.description))>>)

\* a request path for an operation: every '{param}' segment given the value 7
ConcretePath(p) ==
    JoinSegments([k \in DOMAIN split(Drop(p, 1)) |->
        LET seg == split(Drop(p, 1))[k] IN
        IF Len(seg) >= 3 /\ seg[1] = "{" /\ seg[Len(seg)] = "}" THEN <<"7">> ELSE seg])

\* the request of a client for an operation
RequestFor(op) == [method |-> toUpperCase(op.method), path |-> ConcretePath(op.path)]

ReplayedPaths == <<<<"/", "u", "/", "{", "i", "d", "}">>, <<"/", "u", "/", "m", "e">>, <<"/", "{", "i", "-", "d", "}">>, <<"/", "u">>>>

ReplayedItems ==
    {<<Prop(<<"g", "e", "t">>, OperationsPool[3])>>,
     <<Prop(<<"g", "e", "t">>, OperationsPool[5])>>,
     <<Prop(<<"p", "o", "s", "t">>, OperationsPool[5]), Prop(<<"g", "e", "t">>, OperationsPool[3])>>}

ReplayedSpecs ==
    {[info |-> InfoPool[1], paths |-> ps] :
        ps \in {q \in UNION {[1..n -> {Prop(ReplayedPaths[k], item) :
                                          k \in DOMAIN ReplayedPaths, item \in ReplayedItems}] :
                               n \in 1..MaxPaths} :
                  \A i, j \in DOMAIN q : i # j => q[i].key # q[j].key}}

InitGenerated ==
    /\ openapi \in ReplayedSpecs
    /\ generated = Pending
    /\ MatchIdle /\ LookupIdle /\ HistoryIdle /\ RecorderIdle /\ PersistIdle
    /\ StoreIdle /\ SequenceIdle /\ RefsIdle

\* generateScenariosFromSpec(openapi, GeneratedName) at time t
GenerateScenario(t) ==
    /\ generated = Pending
    /\ generated' = Return(generateScenariosFromSpec(openapi, GeneratedName, t, <<"0", ".", "i">>))
    /\ UNCHANGED openapi
    /\ UNCHANGED <<matchVars, lookupVars, historyVars, recorderVars, persistVars>>
    /\ UNCHANGED <<storeVars, sequenceVars, refsVars>>

\* await writeScenario(dir, scenario); await readScenario(dir, scenario.name)
SaveAndLoad ==
    /\ generated # Pending
    /\ loaded = Pending
    /\ LET w == writeScenario(disk, ScenariosDir, ScenarioValue(generated.value[1])) IN
       /\ disk' = w.disk
       /\ json' = readFile(w.disk, getScenarioPath(ScenariosDir, GeneratedName)).value
       /\ loaded' = readScenario(w.disk, ScenariosDir, GeneratedName)
    /\ UNCHANGED <<original, journal, last, reading>>
    /\ UNCHANGED <<matchVars, lookupVars, historyVars, recorderVars>>
    /\ UNCHANGED <<sequenceVars, generateVars, refsVars>>

\* createReplayHandler(scenario)(request) for the k-th operation of the spec
CallGeneratedHandler(k) ==
    /\ generated # Pending
    /\ k \in DOMAIN getAllOperations(openapi)
    /\ request' = RequestFor(getAllOperations(openapi)[k])
    /\ found' = replayHandler(generated.value[1], request')
    /\ twin' = Pending
    /\ UNCHANGED <<mocks, scenario, answers>>
    /\ UNCHANGED <<matchVars, recorderVars, persistVars, cliVars>>

\* the same with the scenario read back from its file
CallStoredHandler(k) ==
    /\ loaded # Pending
    /\ k \in DOMAIN getAllOperations(openapi)
    /\ request' = RequestFor(getAllOperations(openapi)[k])
    /\ twin' = loadedHandler(loaded.value, request')
    /\ found' = Pending
    /\ UNCHANGED <<mocks, scenario, answers>>
    /\ UNCHANGED <<matchVars, recorderVars, persistVars, cliVars>>

NextGenerated ==
    \/ \E t \in Clock : GenerateScenario(t)
    \/ SaveAndLoad
    \/ \E k \in 1..(2 * MaxPaths) : CallGeneratedHandler(k)
    \/ \E k \in 1..(2 * MaxPaths) : CallStoredHandler(k)

SpecGenerated == InitGenerated /\ [][NextGenerated]_vars

----------------------------------------------------------------------------
(* Resolving $ref (openapi refs.ts) *)

\* a $ref is the sequence of the segments of its text between the '/'; a
\* schema is a record, $ref being its field ref

\* resolveRef(spec, ref): undefined unless the text starts with '#/' and
\* every segment names a property on the way
RECURSIVE navigate(_, _)
navigate(current, segments) ==
    IF segments = <<>> THEN current
    ELSE IF Head(segments) \notin DOMAIN current THEN undefined
    ELSE navigate(current[Head(segments)], Tail(segments))

resolveRef(spec, ref) ==
    IF Len(ref) < 2 \/ Head(ref) # "#" THEN undefined
    ELSE navigate(spec, Tail(ref))

CircularMarker == [type |-> "object", description |-> "[Circular Reference]"]

\* the schemas held by the properties, items, allOf, oneOf and anyOf of a schema
Subschemas(schema) ==
    (IF Has(schema, "properties")
     THEN [k \in DOMAIN schema.properties |-> schema.properties[k].value] ELSE <<>>)
    \o (IF Has(schema, "items") THEN <<schema.items>> ELSE <<>>)
    \o (IF Has(schema, "allOf") THEN schema.allOf ELSE <<>>)
    \o (IF Has(schema, "oneOf") THEN schema.oneOf ELSE <<>>)
    \o (IF Has(schema, "anyOf") THEN schema.anyOf ELSE <<>>)

Call(schema, visited) == [schema |-> schema, visited |-> visited]

\* variant: every $ref is followed, on the chain or not
callsFollowingAll(spec, schema, visited) ==
    IF Has(schema, "ref")
    THEN IF resolveRef(spec, schema.ref) # undefined
         THEN <<Call(resolveRef(spec, schema.ref), visited \cup {schema.ref})>>
         ELSE <<>>
    ELSE [k \in DOMAIN Subschemas(schema) |-> Call(Subschemas(schema)[k], visited)]

\* the calls of resolveAllRefs that resolveAllRefs(spec, schema, visited)
\* makes, in order
calls(spec, schema, visited) ==
    IF Has(schema, "ref")
    THEN IF schema.ref \in visited THEN <<>>
         ELSE IF resolveRef(spec, schema.ref) # undefined
              THEN <<Call(resolveRef(spec, schema.ref), visited \cup {schema.ref})>>
              ELSE <<>>
    ELSE [k \in DOMAIN Subschemas(schema) |-> Call(Subschemas(schema)[k], visited)]

\* the value resolveAllRefs(spec, schema, visited) returns
RECURSIVE resolveAllRefs(_, _, _)
resolveAllRefs(spec, schema, visited) ==
    IF Has(schema, "ref")
    THEN IF schema.ref \in visited THEN CircularMarker
         ELSE IF resolveRef(spec, schema.ref) # undefined
              THEN resolveAllRefs(spec, resolveRef(spec, schema.ref),
                                  visited \cup {schema.ref})
              ELSE schema
    ELSE [f \in DOMAIN schema |->
            IF f = "properties"
            THEN [k \in DOMAIN schema.properties |->
                     Prop(schema.properties[k].key,
                          resolveAllRefs(spec, schema.properties[k].value, visited))]
            ELSE IF f = "items" THEN resolveAllRefs(spec, schema.items, visited)
            ELSE IF f \in {"allOf", "oneOf", "anyOf"}
                 THEN [k \in DOMAIN schema[f] |-> resolveAllRefs(spec, schema[f][k], visited)]
            ELSE schema[f]]

MaxSchemas == 2
MaxDepth == 12

SchemaNames == {<<"A", "B", "C">>[k] : k \in 1..MaxSchemas}

\* targets of a $ref: the schemas of the spec and one that is missing
RefTargets == SchemaNames \cup {"X"}

Ref(name) == [ref |-> <<"#", "components", "schemas", name>>]

\* schemas: a $ref, a $ref into another document, an object with a leaf, a
\* $ref and an array under it, a oneOf
Shapes ==
    {[ref |-> <<"other.yaml#", "components", "schemas", "A">>]}
    \cup {Ref(m) : m \in RefTargets}
    \cup {[type |-> "object",
           properties |-> <<Prop("value", [type |-> "string"]),
                            Prop("next", Ref(m)),
                            Prop("tags", [type |-> "array", items |-> Ref(m)])>>] :
            m \in RefTargets}
    \cup {[oneOf |-> <<Ref(m), [type |-> "string"]>>] : m \in RefTargets}

RefSpecs ==
    {[info |-> [title |-> "API"], components |-> [schemas |-> s]] :
        s \in [SchemaNames -> Shapes]}

\* the schema handed to resolveAllRefs: one with $refs, or a schema of the spec
Started(spec) ==
    {[allOf |-> <<Ref("B"), Ref("A")>>], spec.components.schemas["A"]}

\* the call resolveAllRefs(spec, schema) on the stack
InitRefs ==
    /\ resolution \in
         UNION {{[spec |-> spec, schema |-> schema,
                  stack |-> <<[call |-> Call(schema, {}), done |-> 0]>>,
                  outcome |-> Pending] : schema \in Started(spec)} :
                spec \in RefSpecs}
    /\ MatchIdle /\ LookupIdle /\ HistoryIdle /\ RecorderIdle /\ PersistIdle
    /\ StoreIdle /\ SequenceIdle /\ GenerateIdle

Top == resolution.stack[Len(resolution.stack)]
TopCalls == calls(resolution.spec, Top.call.schema, Top.call.visited)

\* the running call makes its next call of resolveAllRefs
Descend ==
    /\ resolution.stack # <<>>
    /\ Top.done < Len(TopCalls)
    /\ Len(resolution.stack) < MaxDepth
    /\ resolution' =
         [resolution EXCEPT
            !.stack = [k \in 1..(Len(@) + 1) |->
                         IF k = Len(@) + 1 THEN [call |-> TopCalls[Top.done + 1], done |-> 0]
                         ELSE IF k = Len(@) THEN [@[k] EXCEPT !.done = @ + 1]
                         ELSE @[k]]]
    /\ UNCHANGED <<matchVars, lookupVars, historyVars, recorderVars, persistVars>>
    /\ UNCHANGED <<storeVars, sequenceVars, generateVars>>

\* the running call has made all its calls and returns, the first call of
\* all to the caller of resolveAllRefs
ReturnResolved ==
    /\ resolution.stack # <<>>
    /\ Top.done = Len(TopCalls)
    /\ resolution' =
         [resolution EXCEPT
            !.stack = SubSeq(@, 1, Len(@) - 1),
            !.outcome = IF Len(resolution.stack) = 1
                        THEN Return(resolveAllRefs(resolution.spec, resolution.schema, {}))
                        ELSE @]
    /\ UNCHANGED <<matchVars, lookupVars, historyVars, recorderVars, persistVars>>
    /\ UNCHANGED <<storeVars, sequenceVars, generateVars>>

NextRefs == Descend \/ ReturnResolved

SpecRefs == InitRefs /\ [][NextRefs]_vars

\* a call runs to its end once made: JavaScript runs it without interruption
SpecRefsFair == SpecRefs /\ WF_vars(NextRefs)

----------------------------------------------------------------------------
(* Vocabulary of the properties *)

\* the segments of a '/'-led string: Segments(JoinSegments(segs)) = segs
RECURSIVE Segments(_)
Segments(s) ==
    IF s = <<>> THEN <<>>
    ELSE LET n == RunNotIn(s, 2, {"/"}) IN
         <<SubSeq(s, 2, n + 1)>> \o Segments(Drop(s, n + 1))

IsParamSegment(seg) == seg # <<>> /\ seg[1] = ":"
IsWildcardSegment(seg) == seg = <<"*">>
IsLiteralSegment(seg) == ~IsParamSegment(seg) /\ ~IsWildcardSegment(seg)

HasSpecial(p) == includes(p, ":") \/ includes(p, "*")

\* least element of a set of positions, 0 for the empty set
First(S) == IF S = {} THEN 0 ELSE CHOOSE i \in S : \A j \in S : i <= j

Matches(p, q) == matchPath(p, q) = Return(TRUE)

----------------------------------------------------------------------------
(* Properties *)

\* the recordings that satisfy the method and the path test
ReplayCandidates ==
    {k \in 1..Len(scenario.recordings) :
        /\ scenario.recordings[k].request.method = request.method
        /\ Matches(scenario.recordings[k].request.path, request.path)}

\* C1: the replay handler returns the response (status, body) of the first
\* recording, in insertion order, whose method equals the request's and
\* whose path, as a pattern, matches the request's path; it returns
\* undefined, and never throws, exactly when no recording satisfies both.
C1_ReplayReturnsFirstMatch ==
    found # Pending =>
        /\ found.kind = "return"
        /\ (found.value = undefined) <=> (ReplayCandidates = {})
        /\ ReplayCandidates # {} =>
             LET rec == scenario.recordings[First(ReplayCandidates)] IN
             /\ found.value.status = rec.response.status
             /\ found.value.body = rec.response.body

\* the mocks that satisfy the method and the path test
MockCandidates ==
    {k \in 1..Len(mocks) :
        /\ matchMethod(mocks[k].method, request.method)
        /\ Matches(mocks[k].pattern, request.path)}

\* C2: findMatchingMock returns the first mock, in sequence order, whose
\* method matches case-insensitively and whose pattern matches the request
\* path, and undefined, not an exception, when there is none.
C2_FindsFirstMock ==
    found # Pending =>
        found = IF MockCandidates = {} THEN Return(undefined)
                ELSE Return(mocks[First(MockCandidates)])

\* C3: for a pattern with neither ':' nor '*', matchPath is true exactly
\* when pattern and path are the same string.
C3_ExactIffEqual ==
    (matched # Pending /\ ~HasSpecial(pattern)) => matched = Return(pattern = path)

\* C3 witness: a path that extends the pattern by a trailing slash is refused
C3_Witness ==
    /\ matched = Return(FALSE)
    /\ pattern = <<"/", "a">>
    /\ path = <<"/", "a", "/">>

\* C4: a segment that begins with ':' matches exactly one non-empty path
\* segment, whatever follows the ':': with as many segments in the path as
\* in the pattern and all other segments equal, matchPath is true exactly
\* when no parameter position of the path is empty; with a different number
\* of segments (no wildcard in the pattern) it is false.
C4_ParamMatchesOneSegment ==
    LET ps == Segments(pattern)
        qs == Segments(path)
        hasParam == \E k \in 1..Len(ps) : IsParamSegment(ps[k])
        othersEqual ==
            /\ Len(ps) = Len(qs)
            /\ \A k \in 1..Len(ps) : IsParamSegment(ps[k]) \/ ps[k] = qs[k]
    IN (matched # Pending /\ hasParam) =>
         /\ othersEqual =>
              matched = Return(\A k \in 1..Len(ps) : IsParamSegment(ps[k]) => qs[k] # <<>>)
         /\ (Len(ps) # Len(qs) /\ ~includes(pattern, "*")) => matched = Return(FALSE)

\* segment-wise matching of literal and wildcard segments
WildcardMatches(ps, qs) ==
    LET segmentOk(k) == IF IsWildcardSegment(ps[k]) THEN qs[k] # <<>> ELSE ps[k] = qs[k] IN
    IF ps # <<>> /\ IsWildcardSegment(ps[Len(ps)])
    THEN Len(qs) >= Len(ps) /\ \A k \in 1..(Len(ps) - 1) : segmentOk(k)
    ELSE Len(qs) = Len(ps) /\ \A k \in 1..Len(ps) : segmentOk(k)

\* C5: a final '*' segment matches the whole rest of the path, slashes
\* included; a '*' segment that is not final matches exactly one non-empty
\* path segment; every literal segment matches itself.
C5_WildcardExtent ==
    matched # Pending => matched = Return(WildcardMatches(Segments(pattern), Segments(path)))

\* C5 witness: '/*/a/*' has matched '/x/a/a/x': the inner wildcard took one
\* segment, the final one the rest across a slash
C5_Witness ==
    /\ matched = Return(TRUE)
    /\ pattern = <<"/", "*", "/", "a", "/", "*">>
    /\ path = <<"/", "x", "/", "a", "/", "a", "/", "x">>

\* C6: in a pattern with a ':' parameter or a '*' wildcard, a segment that
\* is neither is matched literally: the path matches only if it has the
\* same text at that segment.
C6_LiteralSegments ==
    LET ps == Segments(pattern)
        qs == Segments(path)
    IN (matched = Return(TRUE) /\ HasSpecial(pattern)) =>
         \A k \in 1..Len(ps) :
             IsLiteralSegment(ps[k]) => (k <= Len(qs) /\ qs[k] = ps[k])

\* C7: matchPath and parsePathParams never raise, whatever the pattern.
C7_NeverRaises == matched.kind # "throw" /\ params.kind # "throw"

\* matchPath with its first test removed
matchPathWithoutShortcut(p, q) ==
    IF HasSpecial(p)
    THEN LET regex == patternToRegex(p) IN
         IF regex.kind = "throw" THEN Throw ELSE Return(RegexTest(regex.value, q))
    ELSE Return(p = q)

\* C8: matchPath gives the outcome of the same matcher without the
\* 'pattern === path' shortcut.
C8_ShortcutKeepsOutcome ==
    matched # Pending => matched = matchPathWithoutShortcut(pattern, path)

\* C9: parsePathParams returns the empty mapping for a pattern without ':';
\* for a pattern with ':name' segments that matches the path it returns one
\* key per ':name' occurrence, bound to the text of the path segment at that
\* position.
C9_ParamsPerName ==
    LET ps == Segments(pattern)
        qs == Segments(path)
        named == {k \in 1..Len(ps) :
                     IsParamSegment(ps[k]) /\ RunIn(ps[k], 2, WordChars) = Len(ps[k]) - 1
                       /\ Len(ps[k]) > 1}
    IN /\ (params # Pending /\ ~includes(pattern, ":")) => params = Return(EmptyParams)
       /\ (params # Pending /\ matched = Return(TRUE) /\ named # {}) =>
            /\ params.kind = "return"
            /\ DOMAIN params.value = {Tail(ps[k]) : k \in named}
            /\ Cardinality(DOMAIN params.value) = Cardinality(named)
            /\ \A k \in named : params.value[Tail(ps[k])] = qs[k]

\* C10: when the pattern does not match the path, parsePathParams returns
\* the empty mapping instead of failing.
C10_NoMatchGivesEmpty ==
    (matched # Pending /\ matched # Return(TRUE) /\ params # Pending) =>
        params = Return(EmptyParams)

\* the recording the handler answered from: Recording(k, ...) answers with
\* body k
Selected == scenario.recordings[found.value.body]

\* C11: the replay handler answers only from a recording whose method is
\* the very string of the request's method; a recording stored as 'GET' is
\* not selected for a request with method 'get', even when the path matches.
C11_ReplayMethodExact ==
    (found # Pending /\ found.kind = "return" /\ found.value # undefined) =>
        Selected.request.method = request.method

\* a 'GET' recording of the requested path is passed over for 'get'
C11_Witness ==
    /\ Len(scenario.recordings) = 1
    /\ scenario.recordings[1].request.method = GET
    /\ scenario.recordings[1].request.path = request.path
    /\ request.method = get
    /\ found = Return(undefined)

\* the same letters, whatever their case
SameLetter(a, b) ==
    a = b \/ \E n \in DOMAIN LowerCase :
                 {a, b} = {LowerCase[n], UpperCase[n]}

EqualIgnoringCase(s, t) ==
    Len(s) = Len(t) /\ \A k \in 1..Len(s) : SameLetter(s[k], t[k])

\* C12: the mock registry compares methods case-insensitively: matchMethod
\* holds exactly of two methods with the same letters whatever their case,
\* a mock that findMatchingMock returns has the request's method up to
\* case, and a first mock whose method is the request's up to case and
\* whose pattern matches the path is the one returned.
C12_MockMethodAnyCase ==
    /\ \A a \in Methods, b \in Methods :
           matchMethod(a, b) <=> EqualIgnoringCase(a, b)
    /\ (found # Pending /\ found.kind = "return" /\ found.value # undefined) =>
           EqualIgnoringCase(found.value.method, request.method)
    /\ (found # Pending /\ Len(mocks) > 0) =>
           ((EqualIgnoringCase(mocks[1].method, request.method)
               /\ Matches(mocks[1].pattern, request.path))
            => found = Return(mocks[1]))

\* a 'GET' mock is returned for a 'get' request
C12_Witness ==
    /\ found # Pending
    /\ Len(mocks) > 0
    /\ mocks[1].method = GET
    /\ request.method = get
    /\ found = Return(mocks[1])

\* the recording the scan of the handler stops at
Resolved == findRecording(scenario.recordings, 1, request)

\* C13: when the response of the matched recording is a responder function,
\* the handler's answer is what the responder returns for the incoming
\* request.
C13_ResponderInvoked ==
    (/\ found # Pending
     /\ Resolved.kind = "return"
     /\ Resolved.value # undefined
     /\ Resolved.value.response = Responder)
    => found = Return(Invoke(Resolved.value.response, request))

C15_OnlyMethodAndPath ==
    twin # Pending => twin.first = twin.second

\* a recording is selected by both lookups although every unread field of
\* the request and of the recorded request differs
C15_Witness ==
    /\ twin # Pending
    /\ twin.first.recording = 1
    /\ twin.first.handler.kind = "return"
    /\ twin.first.matches[1] = Return(TRUE)
    /\ DOMAIN request # DOMAIN twin.request
    /\ request.url # twin.request.url
    /\ scenario.recordings[1].request.url # twin.scenario.recordings[1].request.url
    /\ DOMAIN scenario.recordings[1].request
         # DOMAIN twin.scenario.recordings[1].request

\* C16: the recordings createRecording has returned have pairwise distinct
\* ids, those made at one value of Date.now() included.
C16_DistinctIds ==
    \A i \in DOMAIN created, j \in DOMAIN created :
        i # j => created[i].id # created[j].id

\* the properties of a scenario other than recordings and updatedAt
Kept(scn) == [f \in DOMAIN scn \ {"recordings", "updatedAt"} |-> scn[f]]

\* C17: a call addRecordingToScenario(s, r) leaves s as it was and returns a
\* scenario whose recordings are those of s followed by r and whose name,
\* description and createdAt are those of s; after any sequence of calls
\* the recordings are the appended ones in the order of the calls.
C17_AppendKeepsArgument ==
    /\ [](scenario.recordings = appended)
    /\ [][appended' # appended =>
            /\ input' = scenario
            /\ scenario'.recordings = Append(scenario.recordings,
                                             appended'[Len(appended')])
            /\ Len(scenario'.recordings) = Len(scenario.recordings) + 1
            /\ Kept(scenario') = Kept(scenario)]_vars

\* two different recordings appended, to a scenario with a description
C17_Witness ==
    /\ Len(appended) = 2
    /\ appended[1] # appended[2]
    /\ scenario.recordings = appended
    /\ "description" \in DOMAIN scenario
    /\ input.recordings = <<appended[1]>>

\* C18: the updatedAt of the scenario addRecordingToScenario returns is at
\* least the updatedAt of its argument, for a scenario read back from
\* storage as for one made by createScenario.
C18_UpdatedAtNeverDecreases ==
    appended # <<>> => scenario.updatedAt >= input.updatedAt

IsScenario(v) ==
    /\ TypeOf(v) = "object"
    /\ TypeOf(Get(v, Key("name"))) = "string"
    /\ TypeOf(Get(v, Key("createdAt"))) = "number"
    /\ TypeOf(Get(v, Key("updatedAt"))) = "number"
    /\ TypeOf(Get(v, Key("recordings"))) = "array"
    /\ \A k \in DOMAIN Get(v, Key("recordings")).items :
          LET r == Get(v, Key("recordings")).items[k] IN
          /\ TypeOf(Get(r, Key("id"))) = "string"
          /\ TypeOf(Get(Get(r, Key("request")), Key("method"))) = "string"
          /\ TypeOf(Get(Get(r, Key("request")), Key("path"))) = "string"
          /\ TypeOf(Get(Get(r, Key("response")), Key("status"))) = "number"

\* C20: deserializeScenario, and readScenario through it, fails on stored
\* content that is not a well-formed Scenario: a value it returns has a
\* name and a recordings sequence of recordings, and the replay handler
\* made from it does not fail.
C20_OnlyScenariosLoaded ==
    /\ loaded.kind = "return" => IsScenario(loaded.value)
    /\ found # Pending => found.kind = "return"

\* C21: an awaited readScenario(dir, name) gives the scenario most recently
\* written under the name, undefined when the name was never written or was
\* deleted since, and deleteScenario of a name that is not stored completes
\* without error.
C21_ReadGivesLastWrite ==
    /\ last # Pending /\ last.op = "read"
           => last.outcome = Return(journal[last.name])
    /\ last # Pending /\ last.op = "delete"
           => last.outcome = Return(undefined)

\* the counter a call of ctx.sequence names: 'default' without argument
CounterName(arg) ==
    IF arg = undefined THEN <<"d", "e", "f", "a", "u", "l", "t">> ELSE arg.s

\* the calls since the last reset, up to the i-th, that name its counter
SameCounter(i) ==
    {j \in 1..i : CounterName(issued[j].arg) = CounterName(issued[i].arg)}

\* C22: the k-th call of ctx.sequence(name) since process start or the last
\* resetSequences() returns k, per name and whatever the factory, the call
\* without name counting on 'default'; no value is returned twice for a name.
C22_SequencesCountFromOne ==
    /\ \A i \in DOMAIN issued : issued[i].value = Cardinality(SameCounter(i))
    /\ \A i, j \in DOMAIN issued :
           /\ i # j
           /\ CounterName(issued[i].arg) = CounterName(issued[j].arg)
           => issued[i].value # issued[j].value

C22_Witness ==
    \E i, j, k \in DOMAIN issued :
        /\ i < j /\ j < k
        /\ issued[i].arg = undefined /\ issued[i].value = 1
        /\ issued[j].arg # undefined /\ issued[j].value = 2
        /\ issued[j].factory # issued[i].factory
        /\ issued[k].arg = JString(<<"i", "d">>) /\ issued[k].value = 1

\* the 2xx status codes an operation declares a response for
SuccessCodes(op) ==
    IF ~Has(op.operation, "responses") THEN {}
    ELSE {DecimalValue(op.operation.responses[i].key) :
            i \in {k \in DOMAIN op.operation.responses :
                     LET name == op.operation.responses[k].key IN
                     /\ Len(name) = 3 /\ name[1] = "2"
                     /\ name[2] \in DecimalChars /\ name[3] \in DecimalChars}}

\* the first of them: properties named by integers come in ascending order
FirstSuccessCode(op) == CHOOSE c \in SuccessCodes(op) : \A e \in SuccessCodes(op) : c <= e

\* a path with every segment '{param}' written ':param'
ColonForm(p) ==
    JoinSegments([k \in DOMAIN Segments(p) |->
        LET seg == Segments(p)[k] IN
        IF Len(seg) >= 3 /\ seg[1] = "{" /\ seg[Len(seg)] = "}"
        THEN <<":">> \o SubSeq(seg, 2, Len(seg) - 1)
        ELSE seg])

\* the operations of the spec that get a recording, in operation order
RecordedOperations ==
    SelectSeq(getAllOperations(openapi), LAMBDA op : SuccessCodes(op) # {})

Called == SelectSeq(RecordedOperations, LAMBDA op : RequestFor(op) = request)

\* C24: for each operation with a recording, the replay handler of the
\* generated scenario, built directly or after writeScenario and
\* readScenario, called with the upper-cased method and a concrete path of
\* the operation returns a defined response with the operation's status.
C24_GeneratedReplayable ==
    \A i \in DOMAIN Called :
        /\ found # Pending =>
               /\ found.kind = "return" /\ found.value # undefined
               /\ found.value.status = FirstSuccessCode(Called[i])
        /\ twin # Pending =>
               /\ twin.kind = "return" /\ twin.value # undefined
               /\ twin.value.status = JNumber(FirstSuccessCode(Called[i]))

\* the running call is of a $ref that is on its resolution chain
OnChain ==
    /\ resolution.stack # <<>>
    /\ Has(Top.call.schema, "ref")
    /\ Top.call.schema.ref \in Top.call.visited

\* C25: resolveAllRefs terminates without throwing for every spec and
\* schema, cycles of $ref included: a $ref already on the resolution chain
\* gives the marker schema and is not followed again.
C25_ResolveTerminates ==
    /\ <>(resolution.outcome.kind = "return")
    /\ [](OnChain => /\ TopCalls = <<>>
                     /\ resolveAllRefs(resolution.spec, Top.call.schema, Top.call.visited)
                            = CircularMarker)

C25_Witness ==
    /\ OnChain
    /\ Len(resolution.stack) >= 5
    /\ Cardinality(Top.call.visited) = 2

\* C26: the response the handler returns for a matched recording has the
\* status and body of the recorded response, headers exactly when the
\* recorded response has headers, statusText exactly when it has statusText,
\* each with the recorded value, and no other field (no timestamp).
C26_ResponseFields ==
    (found # Pending /\ found.kind = "return" /\ found.value # undefined) =>
        LET recorded == Resolved.value.response IN
        /\ found.value.status = recorded.status
        /\ found.value.body = recorded.body
        /\ Has(found.value, "headers") <=> Has(recorded, "headers")
        /\ Has(found.value, "headers") => found.value.headers = recorded.headers
        /\ Has(found.value, "statusText") <=> Has(recorded, "statusText")
        /\ Has(found.value, "statusText") => found.value.statusText = recorded.statusText
        /\ DOMAIN found.value \subseteq {"status", "body", "headers", "statusText"}

\* a response with headers and statusText from a scenario that also holds a
\* recording without them
C26_Witness ==
    /\ found # Pending /\ found.kind = "return" /\ found.value # undefined
    /\ Len(scenario.recordings) = 2
    /\ ~Has(scenario.recordings[1].response, "headers")
    /\ Has(found.value, "headers") /\ Has(found.value, "statusText")
    /\ Has(Resolved.value.response, "timestamp")

\* the entries listScenarios returned under a name
Listed(name) ==
    {i \in DOMAIN last.outcome.value : last.outcome.value[i].name = JString(name)}

\* an entry describes a scenario
Describes(entry, scn) ==
    /\ entry.recordingsCount = Len(Get(scn, Key("recordings")).items)
    /\ entry.createdAt = Get(scn, Key("createdAt"))
    /\ entry.updatedAt = Get(scn, Key("updatedAt"))
    /\ Has(entry, "description") <=> HasKey(scn, Key("description"))
    /\ Has(entry, "description") => entry.description = Get(scn, Key("description"))

\* C27: after awaited writes and deletes on one directory, listScenarios
\* returns exactly one entry for each name whose most recent operation was a
\* write, with the recordingsCount, createdAt, updatedAt and description of
\* the scenario last written under it, none for any other name, and the
\* empty list for an empty or missing directory.
C27_NameIsKey ==
    (last # Pending /\ last.op = "list") =>
        /\ last.outcome.kind = "return"
        /\ \A name \in StoreNames :
               IF journal[name] = undefined THEN Listed(name) = {}
               ELSE /\ Cardinality(Listed(name)) = 1
                    /\ \A i \in Listed(name) :
                           Describes(last.outcome.value[i], journal[name])
        /\ \A i \in DOMAIN last.outcome.value :
               \E name \in StoreNames : i \in Listed(name)
        /\ DOMAIN disk.files = {} => last.outcome.value = <<>>

\* C28: readScenario resolves to undefined or a scenario and never rejects
\* because the file is missing, whatever deleteScenario of the same name
\* runs meanwhile, between its existence check and its file read included.
C28_ReadNeverRejects ==
    (last # Pending /\ last.op = "read") => last.outcome.kind = "return"

\* the recording findMatchingRecording selects for the request
Exact == findMatchingRecording(scenario, request)

\* C29: when no recorded path contains ':' or '*', findMatchingRecording
\* and the replay handler select the same recording or both none; they
\* differ only through a recording whose path is a parameter or wildcard
\* pattern, which findMatchingRecording compares as a plain string.
C29_LookupsAgreeOnLiterals ==
    found # Pending =>
        /\ (\A k \in DOMAIN scenario.recordings :
                ~HasSpecial(scenario.recordings[k].request.path))
           => /\ found.kind = "return"
              /\ IF Exact = undefined THEN found.value = undefined
                 ELSE found.value # undefined /\ Selected = Exact
        /\ (/\ found.kind = "return"
            /\ found.value # undefined
            /\ ~HasSpecial(Selected.request.path))
           => Selected = Exact

\* the second of two recordings with literal paths selected by both
C29_Witness ==
    /\ found # Pending /\ found.kind = "return" /\ found.value # undefined
    /\ Len(scenario.recordings) = 2
    /\ \A k \in DOMAIN scenario.recordings :
           ~HasSpecial(scenario.recordings[k].request.path)
    /\ found.value.body = 2
    /\ Exact = scenario.recordings[2]

\* C30: when parsePathParams(pattern, path) returns a non-empty mapping,
\* matchPath(pattern, path) is true, and every value of the mapping is a
\* non-empty string without '/'.
C30_ParamsImplyMatch ==
    (/\ params # Pending /\ matched # Pending
     /\ params.kind = "return"
     /\ DOMAIN params.value # {})
    => /\ matched = Return(TRUE)
       /\ \A n \in DOMAIN params.value :
              /\ params.value[n] # <<>>
              /\ ~includes(params.value[n], "/")

\* a parameter bound in a pattern that also has a wildcard
C30_Witness ==
    /\ params # Pending /\ matched = Return(TRUE)
    /\ params.kind = "return"
    /\ DOMAIN params.value # {}
    /\ includes(pattern, "*")
    /\ Len(Segments(path)) = 2

====
